---------------------------- MODULE Spec2Model ----------------------------
(***************************************************************************)
(* Verification model of the AtScale client helpers of StreamlitAtScale:   *)
(*   - the draft feature catalog (_parse_categorical_features and friends) *)
(*   - the perspective builder (_create_perspective)                       *)
(*   - the join validator (_check_joins)                                   *)
(*   - the query compiler (_generate_atscale_query)                        *)
(*                                                                         *)
(* Strings are modelled as sequences of tokens; the placeholder "{0}" of a *)
(* roleplay naming template is one token, so str.replace is modelled by    *)
(* what it does to the tokens.  Python dicts that are iterated are         *)
(* modelled as sequences in insertion order.  Display-only metadata        *)
(* (caption, description, level type) is not carried.                      *)
(***************************************************************************)
EXTENDS Integers, Sequences, FiniteSets, TLC

(* ------------------------------ bounds -------------------------------- *)
\* largest number of roleplay references a dataset declares for one key
MaxRoles == 2
\* largest total number of names in the four hide lists of one call
MaxReq == 2
\* number of calls each caller of the concurrent specification makes
MaxCalls == 1
\* largest number of join features of a _check_joins call
MaxJoin == 2
\* longest feature_list of a _generate_atscale_query call
MaxFeatures == 2
\* longest query log of a _generate_db_query call
MaxLog == 3
\* longest statement list of an execute_statements call
MaxStatements == 3
\* largest number of rows of a dataframe written to the warehouse
MaxRows == 3
\* largest chunksize of a write_df_to_db call
MaxChunk == 2
\* largest number of passes of the propagation loop that is followed
MaxPasses == 9

(* ------------------------- generic helpers ---------------------------- *)
Range(s) == {s[i] : i \in 1..Len(s)}

Reverse(s) == [i \in 1..Len(s) |-> s[Len(s) + 1 - i]]

\* the least element of a non-empty set of integers, 0 for the empty set
MinOf(S) == IF S = {} THEN 0 ELSE CHOOSE x \in S : \A y \in S : x <= y

\* v has a value.  An operator argument is evaluated when it is first used;
\* the loops below test their accumulator at every iteration, so that it is
\* computed step by step as the Python loops compute it.
Evaluated(v) == v = v

RECURSIVE Concat(_)
Concat(ss) == IF ss = <<>> THEN <<>> ELSE Head(ss) \o Concat(Tail(ss))

\* the elements of a set of integers as an increasing sequence
RECURSIVE SortedSeq(_)
SortedSeq(S) ==
  IF S = {} THEN <<>> ELSE <<MinOf(S)>> \o SortedSeq(S \ {MinOf(S)})

(* ------------------------------ strings ------------------------------- *)
PH == "{0}"

\* str.replace("{0}", new): every occurrence
Replace(s, new) ==
  Concat([i \in 1..Len(s) |-> IF s[i] = PH THEN new ELSE <<s[i]>>])

\* str.replace("{0}", new, 1): the first occurrence only
ReplaceFirst(s, new) ==
  LET k == MinOf({i \in 1..Len(s) : s[i] = PH})
  IN  IF k = 0 THEN s
      ELSE SubSeq(s, 1, k - 1) \o new \o SubSeq(s, k + 1, Len(s))

(* ------------------------ project descriptors ------------------------- *)
(* The project descriptor read by the parsers.  The tree is fixed; the     *)
(* roleplay references the cube's datasets declare for the keys of Day and *)
(* Month vary.                                                             *)
(*   Date (d1):  Cal (h1) = Year > Month [MonthName] > Day                 *)
(*               (the level Month of Cal may be invisible)                 *)
(*               Wk  (h2) = Year > Week > Day                              *)
(*   Prod (d2):  ProdH (h3) = Item [metrical Weight]                       *)
(*   cube-level (degenerate) dimension Chan (d9): ChanH (h9) = Channel  *)
(* A snowflaked descriptor has keyed-attribute-refs between the dimensions: *)
(* in a chain the level Item refers to the attribute of Month, in a cycle  *)
(* the level Month refers to the attribute of Item as well.                *)

\* the (ref-naming, ref-id) choices a dataset key-ref may carry; the first
\* is a key-ref without ref-path
RoleUniverse ==
  << [hasRefPath |-> FALSE, naming |-> <<PH>>, refid |-> ""],
     [hasRefPath |-> TRUE, naming |-> <<"Order", PH>>, refid |-> "r1"],
     [hasRefPath |-> TRUE, naming |-> <<"Ship", PH>>, refid |-> "r2"] >>

RoleChoices == {S \in SUBSET (1..Len(RoleUniverse)) : Cardinality(S) <= MaxRoles}

\* a descriptor is determined by the roles of the Day key and of the Month
\* key, by the order in which Python iterates a two-element set of ids, and
\* by whether the level Month of Cal has properties.visible False
DescParams ==
  {p \in [day : RoleChoices, month : RoleChoices, rev : BOOLEAN, hidden : BOOLEAN] :
     p.rev => (p.day # {} /\ p.month # {})}

KeyRefsOf(key, S) ==
  LET idx == SortedSeq(S)
  IN  [i \in 1..Len(idx) |->
        [id |-> key, complete |-> "false",
         hasRefPath |-> RoleUniverse[idx[i]].hasRefPath,
         naming |-> RoleUniverse[idx[i]].naming,
         refid |-> RoleUniverse[idx[i]].refid]]

NoKar == <<>>

Lvl(primary, kar, ar) ==
  [primary |-> primary, hasProps |-> TRUE, visible |-> TRUE, kar |-> kar, ar |-> ar]

SecRef(attr) ==
  [attr |-> attr, hasRefPath |-> FALSE, naming |-> <<PH>>, refid |-> "", hasRefId |-> FALSE]

\* the snowflake of a descriptor: "none", "chain" or "cycle"
SnowOf(p) == IF "snow" \in DOMAIN p THEN p.snow ELSE "none"

\* the key-refs of the Item key: complete, or incomplete with a ref-path
ItemKeyRefs(p) ==
  IF "item" \in DOMAIN p /\ p.item
  THEN << [id |-> "kItem", complete |-> "false", hasRefPath |-> TRUE,
           naming |-> <<"Ship", PH>>, refid |-> "r2"] >>
  ELSE << [id |-> "kItem", complete |-> "true", hasRefPath |-> FALSE,
           naming |-> <<PH>>, refid |-> ""] >>

Descriptor(p) ==
  [ keyed |->
      << [id |-> "aYear", name |-> <<"Year">>, keyref |-> "kYear"],
         [id |-> "aMonth", name |-> <<"Month">>, keyref |-> "kMonth"],
         [id |-> "aWeek", name |-> <<"Week">>, keyref |-> "kWeek"],
         [id |-> "aDay", name |-> <<"Day">>, keyref |-> "kDay"],
         [id |-> "aMonthName", name |-> <<"MonthName">>, keyref |-> "kMonthName"],
         [id |-> "aItem", name |-> <<"Item">>, keyref |-> "kItem"] >>,
    metrical |->
      << [id |-> "aWeight", name |-> <<"Weight">>, keyref |-> "kWeight"] >>,
    keyrefs |->
      KeyRefsOf("kDay", p.day) \o KeyRefsOf("kMonth", p.month) \o ItemKeyRefs(p),
    dims |->
      << [id |-> "d1", name |-> <<"Date">>,
          hierarchy |->
            << [id |-> "h1", name |-> <<"Cal">>, folder |-> "fCal",
                level |-> << Lvl("aYear", NoKar, <<>>),
                             [Lvl("aMonth",
                                  <<SecRef("aMonthName")>>
                                    \o (IF SnowOf(p) = "cycle" THEN <<SecRef("aItem")>>
                                        ELSE <<>>), <<>>)
                                EXCEPT !.visible = ~p.hidden],
                             Lvl("aDay", NoKar, <<>>) >>],
               [id |-> "h2", name |-> <<"Wk">>, folder |-> "fWk",
                level |-> << Lvl("aYear", NoKar, <<>>),
                             Lvl("aWeek", NoKar, <<>>),
                             Lvl("aDay", NoKar, <<>>) >>] >>],
         [id |-> "d2", name |-> <<"Prod">>,
          hierarchy |->
            << [id |-> "h3", name |-> <<"ProdH">>, folder |-> "fProd",
                level |-> << Lvl("aItem",
                                 IF SnowOf(p) = "none" THEN NoKar
                                 ELSE <<SecRef("aMonth")>>,
                                 <<SecRef("aWeight")>>) >>] >>] >>,
    cubeKeyed |->
      << [id |-> "aChannel", name |-> <<"Channel">>, keyref |-> "kChannel"] >>,
    cubeDims |->
      << [id |-> "d9", name |-> <<"Chan">>,
          hierarchy |->
            << [id |-> "h9", name |-> <<"ChanH">>, folder |-> "fChan",
                level |-> << Lvl("aChannel", NoKar, <<>>) >>] >>] >>,
    measures |-> << [id |-> "mSales", name |-> <<"Sales">>] >>,
    calcs |-> << [id |-> "cProfit", name |-> <<"Profit">>] >>,
    calcRefs |-> {"cProfit"},
    setRev |-> p.rev ]


(* ------------------- _parse_categorical_features ---------------------- *)
\* a Python dict as a function: d[k].append(v) after d.setdefault(k, [])
AppendAt(d, k, v) ==
  IF k \in DOMAIN d THEN [d EXCEPT ![k] = Append(@, v)]
  ELSE [x \in DOMAIN d \cup {k} |-> IF x = k THEN <<v>> ELSE d[x]]

\* d[k] = v
SetAt(d, k, v) == [x \in DOMAIN d \cup {k} |-> IF x = k THEN v ELSE d[x]]

EmptyDict == [x \in {} |-> <<>>]

DefaultRole == <<<<PH>>, "">>

\* d[k].extend(vs) after d.setdefault(k, []), for a non-empty vs
ExtendAt(d, k, vs) ==
  IF vs = <<>> THEN d
  ELSE IF k \in DOMAIN d THEN [d EXCEPT ![k] = @ \o vs]
  ELSE SetAt(d, k, vs)

\* roleplay_refs: the incomplete key-refs of the cube's datasets
RECURSIVE RoleplayRefsFrom(_, _)
RoleplayRefsFrom(keyrefs, refs) ==
  IF keyrefs = <<>> \/ ~Evaluated(refs) THEN refs
  ELSE LET key == Head(keyrefs)
       IN  RoleplayRefsFrom(Tail(keyrefs),
             IF key.complete = "false"
             THEN AppendAt(refs, key.id,
                           IF key.hasRefPath THEN <<key.naming, key.refid>>
                           ELSE DefaultRole)
             ELSE refs)

RoleplayRefs(desc) == RoleplayRefsFrom(desc.keyrefs, EmptyDict)

\* roleplay_ids[a.id] = roleplay_refs[a.key-ref] for the attributes whose
\* key-ref is a key of roleplay_refs
RECURSIVE SeedFrom(_, _, _)
SeedFrom(attributes, refs, ids) ==
  IF attributes = <<>> \/ ~Evaluated(ids) THEN ids
  ELSE LET a == Head(attributes)
       IN  SeedFrom(Tail(attributes), refs,
             IF a.keyref # "" /\ a.keyref \in DOMAIN refs
             THEN SetAt(ids, a.id, refs[a.keyref])
             ELSE ids)

\* roleplay_ids before the propagation loop
SeedRoleplayIds(desc) == SeedFrom(desc.keyed, RoleplayRefs(desc), EmptyDict)

\* the levels of the project dimensions in document order
LevelsOf(dimensions) ==
  Concat([d \in 1..Len(dimensions) |->
    Concat([h \in 1..Len(dimensions[d].hierarchy) |->
      dimensions[d].hierarchy[h].level])])

\* the roleplay a keyed-attribute-ref inherits from one roleplay of its level
KeyVal(key, roleplay) ==
  IF key.hasRefPath
  THEN <<ReplaceFirst(roleplay[1], key.naming), key.refid>>
  ELSE <<roleplay[1], "">>

\* "for key in level[...]: for roleplay in base_roleplays: append"
RECURSIVE PropagateRefs(_, _, _, _)
PropagateRefs(ids, keys, base_roleplays, metrical) ==
  IF keys = <<>> THEN ids
  ELSE LET key == Head(keys)
           vals == [i \in 1..Len(base_roleplays) |->
                      IF metrical THEN <<base_roleplays[i][1], "">>
                      ELSE KeyVal(key, base_roleplays[i])]
       IN  CHOOSE after \in
             {PropagateRefs(next, rest, roleplays, metrical) :
                next \in {ExtendAt(ids, key.attr, vals)}, rest \in {Tail(keys)},
                roleplays \in {base_roleplays}} : TRUE

\* the body of the innermost loop of one propagation pass, for one level
PropagateLevel(ids, level, last_run) ==
  IF level.primary \in DOMAIN ids \/ last_run
  THEN LET base_roleplays ==
             IF level.primary \in DOMAIN ids THEN ids[level.primary]
             ELSE <<DefaultRole>>
       IN  IF level.hasProps /\ level.visible
           THEN CHOOSE after \in
                  {PropagateRefs(keyed, level.ar, roleplays, TRUE) :
                     keyed \in {PropagateRefs(ids, level.kar, base_roleplays, FALSE)},
                     roleplays \in {base_roleplays}} : TRUE
           ELSE ids
  ELSE ids

RECURSIVE PropagateLevels(_, _, _)
PropagateLevels(ids, levels, last_run) ==
  IF levels = <<>> THEN ids
  ELSE CHOOSE after \in
         {PropagateLevels(next, rest, last_run) :
            next \in {PropagateLevel(ids, Head(levels), last_run)},
            rest \in {Tail(levels)}} : TRUE

\* one pass of the while loop over every dimension, hierarchy and level
PropagatePass(desc, ids, last_run) ==
  PropagateLevels(ids, LevelsOf(desc.dims), last_run)

\* a test of the number of ids that never sets last_run
LastRunNever(ids, after, last_run) == FALSE

\* "if starting_roleplays == len(roleplay_ids): last_run = True"
LastRun(ids, after, last_run) ==
  last_run \/ Cardinality(DOMAIN ids) = Cardinality(DOMAIN after)

\* the while loop: roleplay_ids when the loop has left.  done is set from
\* last_run at the end of the pass that sets last_run.
RECURSIVE PropagateLoop(_, _, _, _)
PropagateLoop(desc, ids, last_run, done) ==
  IF done THEN ids
  ELSE LET after == PropagatePass(desc, ids, last_run)
       IN  PropagateLoop(desc, after, LastRun(ids, after, last_run),
                         LastRun(ids, after, last_run))

\* roleplay_ids after the metrical attributes have been handled
RECURSIVE MetricalFrom(_, _, _)
MetricalFrom(attributes, refs, ids) ==
  IF attributes = <<>> \/ ~Evaluated(ids) THEN ids
  ELSE LET a == Head(attributes)
       IN  MetricalFrom(Tail(attributes), refs,
             IF a.keyref # "" /\ a.keyref \in DOMAIN refs
             THEN SetAt(ids, a.id, refs[a.keyref])
             ELSE IF a.id \in DOMAIN refs THEN SetAt(ids, a.id, refs[a.id])
             ELSE ids)

MetricalRoleplayIds(desc, ids) == MetricalFrom(desc.metrical, RoleplayRefs(desc), ids)

\* ref_ids: every project attribute by id
RefIds(desc) ==
  LET all == desc.keyed \o desc.metrical
  IN  [id \in {all[i].id : i \in 1..Len(all)} |->
         (CHOOSE a \in Range(all) : a.id = id)]

\* dim_to_id_dict is a sequence of entries in insertion order, keyed by name
IndexOf(dict, name) == MinOf({i \in 1..Len(dict) : dict[i].name = name})

\* dim_to_id_dict[name] = entry
PutEntry(dict, e) ==
  IF IndexOf(dict, e.name) = 0 THEN Append(dict, e)
  ELSE [dict EXCEPT ![IndexOf(dict, e.name)] = e]

RECURSIVE PutEntries(_, _)
PutEntries(dict, entries) ==
  IF entries = <<>> \/ ~Evaluated(dict) THEN dict
  ELSE PutEntries(PutEntry(dict, Head(entries)), Tail(entries))

\* "set", whatever the current value: the new value overwrites
SetAlways(cur, val) == val

\* Python's "extend when the current value is a non-empty list, else set"
ExtendOrSet(cur, val) == IF Len(cur) > 0 THEN cur \o val ELSE val

\* a merge that always adds a new entry, as if the name were never found
MergeLevelEntryAlwaysNew(dict, e) == Append(dict, e)

\* "deal with multiple hierarchies with same roleplay method": list-valued
\* fields are extended, the other fields of the new entry overwrite
MergeLevelEntry(dict, e) ==
  LET i == IndexOf(dict, e.name)
  IN  IF i = 0 THEN Append(dict, e)
      ELSE IF e.roleplayed_hierarchy[1] \in Range(dict[i].roleplayed_hierarchy)
      THEN dict
      ELSE [dict EXCEPT ![i] =
              [e EXCEPT !.folder = ExtendOrSet(dict[i].folder, e.folder),
                        !.roleplayed_hierarchy =
                           ExtendOrSet(dict[i].roleplayed_hierarchy, e.roleplayed_hierarchy),
                        !.base_hierarchy =
                           ExtendOrSet(dict[i].base_hierarchy, e.base_hierarchy),
                        !.secondary_attribute = dict[i].secondary_attribute,
                        !.feature_type = dict[i].feature_type]]

RECURSIVE MergeLevelEntries(_, _)
MergeLevelEntries(dict, entries) ==
  IF entries = <<>> \/ ~Evaluated(dict) THEN dict
  ELSE MergeLevelEntries(MergeLevelEntry(dict, Head(entries)), Tail(entries))

\* the roleplays applied for one governing attribute id, and whether the
\* level is queryable
LevelRoleplays(ids, roleplay) ==
  IF roleplay \in DOMAIN ids THEN ids[roleplay] ELSE <<DefaultRole>>

\* a level entry named by its base name, whatever the roleplay
LevelEntryBaseNamed(refs, dimension, hierarchy, level, role, ref_id, queryable) ==
  [ name |-> refs[level.primary].name,
    id |-> refs[level.primary].id,
    folder |-> <<hierarchy.folder>>,
    queryable |-> queryable,
    roleplay_expression |-> role,
    roleplay_ref_id |-> ref_id,
    roleplayed_hierarchy |-> <<Replace(role, hierarchy.name)>>,
    roleplayed_dimension |-> Replace(role, dimension.name),
    base_name |-> refs[level.primary].name,
    base_hierarchy |-> <<hierarchy.name>>,
    base_dimension |-> dimension.name,
    secondary_attribute |-> FALSE,
    feature_type |-> "Categorical" ]

LevelEntry(refs, dimension, hierarchy, level, role, ref_id, queryable) ==
  [ name |-> Replace(role, refs[level.primary].name),
    id |-> refs[level.primary].id,
    folder |-> <<hierarchy.folder>>,
    queryable |-> queryable,
    roleplay_expression |-> role,
    roleplay_ref_id |-> ref_id,
    roleplayed_hierarchy |-> <<Replace(role, hierarchy.name)>>,
    roleplayed_dimension |-> Replace(role, dimension.name),
    base_name |-> refs[level.primary].name,
    base_hierarchy |-> <<hierarchy.name>>,
    base_dimension |-> dimension.name,
    secondary_attribute |-> FALSE,
    feature_type |-> "Categorical" ]

SecondaryEntry(refs, dimension, hierarchy, attr, role, ref_id, queryable) ==
  [ name |-> Replace(role, refs[attr.attr].name),
    id |-> refs[attr.attr].id,
    folder |-> <<hierarchy.folder>>,
    queryable |-> queryable,
    roleplay_expression |-> role,
    roleplay_ref_id |-> ref_id,
    roleplayed_hierarchy |-> <<Replace(role, refs[attr.attr].name)>>,
    roleplayed_dimension |-> Replace(role, dimension.name),
    base_name |-> refs[attr.attr].name,
    base_hierarchy |-> <<hierarchy.name>>,
    base_dimension |-> dimension.name,
    secondary_attribute |-> TRUE,
    feature_type |-> "Categorical" ]

\* a metrical secondary attribute: no hierarchy and no dimension fields
MetricalEntry(refs, dimension, hierarchy, attr, role, ref_id, queryable) ==
  [ name |-> Replace(role, refs[attr.attr].name),
    id |-> refs[attr.attr].id,
    folder |-> <<hierarchy.folder>>,
    queryable |-> queryable,
    roleplay_expression |-> role,
    roleplay_ref_id |-> ref_id,
    roleplayed_hierarchy |-> <<>>,
    roleplayed_dimension |-> <<>>,
    base_name |-> refs[attr.attr].name,
    base_hierarchy |-> <<>>,
    base_dimension |-> <<>>,
    secondary_attribute |-> TRUE,
    feature_type |-> "Numeric" ]

\* the attribute refs of a level that carry no ref-id of their own
RECURSIVE WithoutRefId(_)
WithoutRefId(attrs) ==
  IF attrs = <<>> THEN <<>>
  ELSE (IF Head(attrs).hasRefId THEN <<>> ELSE <<Head(attrs)>>) \o WithoutRefId(Tail(attrs))

\* the body of "for roleplay in roleplays_to_apply" for one level
EmitRoleplay(desc, ids, dict, dimension, hierarchy, level, roleplay) ==
  LET refs == RefIds(desc)
      queryable == roleplay \in DOMAIN ids
      rps == LevelRoleplays(ids, roleplay)
      kar == WithoutRefId(level.kar)
      ar == WithoutRefId(level.ar)
      level_entries ==
        [r \in 1..Len(rps) |->
           LevelEntry(refs, dimension, hierarchy, level, rps[r][1], rps[r][2], queryable)]
      secondary_entries ==
        Concat([a \in 1..Len(kar) |-> [r \in 1..Len(rps) |->
           SecondaryEntry(refs, dimension, hierarchy, kar[a], rps[r][1], rps[r][2],
                          queryable)]])
      metrical_entries ==
        Concat([a \in 1..Len(ar) |-> [r \in 1..Len(rps) |->
           MetricalEntry(refs, dimension, hierarchy, ar[a], rps[r][1], rps[r][2],
                         queryable)]])
  IN  PutEntries(PutEntries(MergeLevelEntries(dict, level_entries), secondary_entries),
                 metrical_entries)

RECURSIVE EmitRoleplays(_, _, _, _, _, _, _)
EmitRoleplays(desc, ids, dict, dimension, hierarchy, level, roleplays_to_apply) ==
  IF roleplays_to_apply = <<>> \/ ~Evaluated(dict) THEN dict
  ELSE EmitRoleplays(desc, ids,
         EmitRoleplay(desc, ids, dict, dimension, hierarchy, level, Head(roleplays_to_apply)),
         dimension, hierarchy, level, Tail(roleplays_to_apply))

\* the walk of the levels of one hierarchy, leaf to root; roleplays is the
\* Python set of attribute ids seen so far, kept in insertion order
RECURSIVE EmitLevels(_, _, _, _, _, _, _)
EmitLevels(desc, ids, dict, dimension, hierarchy, levels, seen) ==
  IF levels = <<>> \/ ~Evaluated(<<dict, seen>>) THEN dict
  ELSE LET level == Head(levels)
           roleplays ==
             IF level.primary \in DOMAIN ids /\ level.primary \notin Range(seen)
             THEN Append(seen, level.primary)
             ELSE seen
           roleplays_to_apply ==
             IF Len(roleplays) = 0 THEN <<level.primary>>
             ELSE IF desc.setRev THEN Reverse(roleplays) ELSE roleplays
       IN  EmitLevels(desc, ids,
             EmitRoleplays(desc, ids, dict, dimension, hierarchy, level, roleplays_to_apply),
             dimension, hierarchy, Tail(levels), roleplays)

EmitHierarchy(desc, ids, dict, dimension, hierarchy) ==
  EmitLevels(desc, ids, dict, dimension, hierarchy, Reverse(hierarchy.level), <<>>)

\* the (dimension, hierarchy) pairs of a list of dimensions in document order
HierarchiesOf(dimensions) ==
  Concat([d \in 1..Len(dimensions) |->
    [h \in 1..Len(dimensions[d].hierarchy) |->
       [dimension |-> dimensions[d], hierarchy |-> dimensions[d].hierarchy[h]]]])

RECURSIVE EmitHierarchies(_, _, _, _)
EmitHierarchies(desc, ids, dict, dhs) ==
  IF dhs = <<>> \/ ~Evaluated(dict) THEN dict
  ELSE EmitHierarchies(desc, ids,
         EmitHierarchy(desc, ids, dict, Head(dhs).dimension, Head(dhs).hierarchy),
         Tail(dhs))

\* dim_to_id_dict after every hierarchy has been walked
EmitAll(desc, ids) == EmitHierarchies(desc, ids, <<>>, HierarchiesOf(desc.dims))

\* return_dict: the catalog entry built from a dim_to_id_dict entry.  A
\* catalog is a sequence of entries in insertion order, keyed by name; an
\* absent key of the Python dict is a has* flag that is FALSE.
ReturnEntry(e) ==
  LET numeric == e.feature_type = "Numeric"
  IN  [ name |-> e.name,
        atscale_type |-> IF numeric THEN "Aggregate" ELSE "Regular",
        hasHierarchy |-> ~numeric,
        hierarchy |-> IF numeric THEN <<>> ELSE e.roleplayed_hierarchy,
        hasDimension |-> TRUE,
        dimension |-> e.roleplayed_dimension,
        folder |-> e.folder,
        queryable |-> e.queryable,
        feature_type |-> e.feature_type,
        roleplay_expression |-> e.roleplay_expression,
        hasRefId |-> e.roleplay_ref_id # "",
        roleplay_ref_id |-> e.roleplay_ref_id,
        hasBase |-> TRUE,
        base_name |-> e.base_name,
        base_hierarchy |-> e.base_hierarchy,
        base_dimension |-> e.base_dimension,
        hasSecondary |-> ~numeric,
        secondary_attribute |-> IF numeric THEN FALSE ELSE e.secondary_attribute ]

_parse_categorical_features(desc) ==
  IF Len(desc.keyed) = 0 THEN <<>>
  ELSE LET ids == MetricalRoleplayIds(desc, PropagateLoop(desc, SeedRoleplayIds(desc), FALSE, FALSE))
           dict == EmitAll(desc, ids)
       IN  [i \in 1..Len(dict) |-> ReturnEntry(dict[i])]

\* an entry that carries none of the roleplay keys (measures, calculated
\* members, degenerate attributes)
PlainEntry(name, atscale_type, feature_type, folder) ==
  [ name |-> name, atscale_type |-> atscale_type,
    hasHierarchy |-> FALSE, hierarchy |-> <<>>,
    hasDimension |-> FALSE, dimension |-> <<>>,
    folder |-> folder, queryable |-> TRUE, feature_type |-> feature_type,
    roleplay_expression |-> <<>>, hasRefId |-> FALSE, roleplay_ref_id |-> "",
    hasBase |-> FALSE, base_name |-> <<>>, base_hierarchy |-> <<>>,
    base_dimension |-> <<>>, hasSecondary |-> FALSE, secondary_attribute |-> FALSE ]

_parse_aggregate_features(desc) ==
  [i \in 1..Len(desc.measures) |->
     PlainEntry(desc.measures[i].name, "Aggregate", "Numeric", <<"">>)]

\* the calculated members the cube references, in document order
RECURSIVE ReferencedCalcs(_, _)
ReferencedCalcs(calcs, refs) ==
  IF calcs = <<>> THEN <<>>
  ELSE (IF Head(calcs).id \in refs THEN <<Head(calcs)>> ELSE <<>>)
       \o ReferencedCalcs(Tail(calcs), refs)

_parse_calculated_features(desc) ==
  LET refd == ReferencedCalcs(desc.calcs, desc.calcRefs)
  IN  [i \in 1..Len(refd) |-> PlainEntry(refd[i].name, "Calculated", "Numeric", <<"">>)]

\* the attribute ids of a list of attribute refs
AttrIds(refs) == [j \in 1..Len(refs) |-> refs[j].attr]

\* one attribute id of one level of a cube-level hierarchy
DenormFolderStep(info, x, attr_id) ==
  IF attr_id \in DOMAIN info
  THEN IF x.hierarchy.name \in Range(info[attr_id].hierarchy) THEN info
       ELSE [info EXCEPT ![attr_id].folder = Append(@, x.hierarchy.folder),
                         ![attr_id].hierarchy = Append(@, x.hierarchy.name)]
  ELSE SetAt(info, attr_id,
             [ folder |-> <<x.hierarchy.folder>>,
               hierarchy |-> <<x.hierarchy.name>>,
               dimension |-> x.dimension.name,
               secondary_attribute |-> attr_id # x.level.primary ])

\* xs: the (level, attribute id) pairs of the cube-level hierarchies
RECURSIVE DenormFolderFrom(_, _)
DenormFolderFrom(info, xs) ==
  IF xs = <<>> \/ ~Evaluated(info) THEN info
  ELSE DenormFolderFrom(DenormFolderStep(info, Head(xs).x, Head(xs).attr_id), Tail(xs))

\* folder_info of _parse_denormalized_categorical_features: attribute id ->
\* folders, hierarchies, dimension of the cube-level dimensions
DenormFolderInfo(desc) ==
  LET dhs == HierarchiesOf(desc.cubeDims)
      dhl == Concat([k \in 1..Len(dhs) |->
                [l \in 1..Len(dhs[k].hierarchy.level) |->
                   [dimension |-> dhs[k].dimension, hierarchy |-> dhs[k].hierarchy,
                    level |-> dhs[k].hierarchy.level[l]]]])
      ids(x) == <<x.level.primary>> \o AttrIds(x.level.kar) \o AttrIds(x.level.ar)
      xs == Concat([k \in 1..Len(dhl) |->
                [j \in 1..Len(ids(dhl[k])) |-> [x |-> dhl[k], attr_id |-> ids(dhl[k])[j]]]])
  IN  DenormFolderFrom(EmptyDict, xs)

\* metrical_attributes: the attribute refs of the cube-level levels
DenormMetricals(desc) ==
  LET dhs == HierarchiesOf(desc.cubeDims)
  IN  UNION {UNION {Range(AttrIds(dhs[k].hierarchy.level[l].ar)) :
                      l \in 1..Len(dhs[k].hierarchy.level)} : k \in 1..Len(dhs)}

\* the catalog entry of one attribute that folder_info knows
DenormEntry(i, fi, metrical) ==
  IF metrical
  THEN PlainEntry(i.name, "Aggregate", "Numeric", fi.folder)
  ELSE [PlainEntry(i.name, "Regular", "Categorical", fi.folder) EXCEPT
          !.hasHierarchy = TRUE,
          !.hierarchy = IF fi.secondary_attribute THEN <<i.name>> ELSE fi.hierarchy,
          !.hasDimension = TRUE,
          !.dimension = fi.dimension,
          !.hasSecondary = TRUE,
          !.secondary_attribute = fi.secondary_attribute]

RECURSIVE DenormEntries(_, _, _, _)
DenormEntries(out, feature_info, info, metrical_attributes) ==
  IF feature_info = <<>> \/ ~Evaluated(out) THEN out
  ELSE DenormEntries(
         IF Head(feature_info).id \in DOMAIN info
         THEN PutEntry(out, DenormEntry(Head(feature_info), info[Head(feature_info).id],
                                        Head(feature_info).id \in metrical_attributes))
         ELSE out,
         Tail(feature_info), info, metrical_attributes)

_parse_denormalized_categorical_features(desc) ==
  IF Len(desc.cubeKeyed) = 0 THEN <<>>
  ELSE DenormEntries(<<>>, desc.cubeKeyed \o desc.keyed \o desc.metrical,
                     DenormFolderInfo(desc), DenormMetricals(desc))

\* dict.update: existing keys keep their place, new keys are appended
UpdateDict(dict, other) == PutEntries(dict, other)

\* an optional list argument: None, or the set of its elements
NoneList == [given |-> FALSE, names |-> {}]

SomeList(S) == [given |-> TRUE, names |-> S]

\* filters that do not look at the feature_type
KeepFeatureOfAnyType(e, feature_list, folder_list, feature_type) ==
  /\ ~feature_list.given \/ e.name \in feature_list.names
  /\ ~folder_list.given \/ \E f \in Range(e.folder) : f \in folder_list.names

\* the filters of _get_draft_features on one catalog entry
KeepFeature(e, feature_list, folder_list, feature_type) ==
  /\ ~feature_list.given \/ e.name \in feature_list.names
  /\ ~folder_list.given \/ \E f \in Range(e.folder) : f \in folder_list.names
  /\ feature_type = "All" \/ e.feature_type = feature_type

RECURSIVE FilterCatalog(_, _, _, _)
FilterCatalog(dict, feature_list, folder_list, feature_type) ==
  IF dict = <<>> THEN <<>>
  ELSE (IF KeepFeature(Head(dict), feature_list, folder_list, feature_type)
        THEN <<Head(dict)>> ELSE <<>>)
       \o FilterCatalog(Tail(dict), feature_list, folder_list, feature_type)

_get_draft_features(desc, feature_list, folder_list, feature_type) ==
  LET categorical ==
        UpdateDict(_parse_categorical_features(desc),
                   _parse_denormalized_categorical_features(desc))
      start_dict ==
        IF feature_type \in {"Numeric", "All"}
        THEN UpdateDict(UpdateDict(categorical, _parse_aggregate_features(desc)),
                        _parse_calculated_features(desc))
        ELSE categorical
  IN  FilterCatalog(start_dict, feature_list, folder_list, feature_type)

\* info_dict.get("base_name", feature)
BaseNameOf(e) == IF e.hasBase THEN e.base_name ELSE e.name

\* the keys of a catalog
NamesOf(catalog) == {catalog[i].name : i \in 1..Len(catalog)}

(* ----------------------------- _check_joins ---------------------------- *)
\* Column names are token sequences like feature names.  A join column is
\* passed as a string (list FALSE, one name) or as a list of strings.
\* use_spark and spark_input only choose the dataframe library of the merge
\* and are not carried.

\* the elements of a list that are not in a set, in order
RECURSIVE Without(_, _)
Without(xs, S) ==
  IF xs = <<>> THEN <<>>
  ELSE (IF Head(xs) \notin S THEN <<Head(xs)>> ELSE <<>>) \o Without(Tail(xs), S)

\* info.get("secondary_attribute", False)
SecondaryOf(e) == e.hasSecondary /\ e.secondary_attribute

\* base_names: the base names of the roleplayed categorical features
BaseNames(feature_dict) ==
  {feature_dict[j].base_name :
     j \in {i \in 1..Len(feature_dict) :
              /\ feature_dict[i].feature_type = "Categorical"
              /\ feature_dict[i].name # BaseNameOf(feature_dict[i])}}

\* levels keyed by the name of the entry instead of its base name
LevelsByName(feature_dict) ==
  {feature_dict[j].name :
     j \in {i \in 1..Len(feature_dict) :
              /\ feature_dict[i].feature_type = "Categorical"
              /\ ~SecondaryOf(feature_dict[i])}}

\* levels: "the set of only base names of levels (not secondary attributes
\* either)"
Levels(feature_dict) ==
  {BaseNameOf(feature_dict[j]) :
     j \in {i \in 1..Len(feature_dict) :
              /\ feature_dict[i].feature_type = "Categorical"
              /\ ~SecondaryOf(feature_dict[i])}}

\* the keys of feature_dict after feature_dict.update(base_names)
UpdatedNames(feature_dict) == NamesOf(feature_dict) \cup BaseNames(feature_dict)

\* features_not_in_model
FeaturesNotInModel(feature_dict, join_features) ==
  Without(join_features, UpdatedNames(feature_dict))

\* non_level_features
NonLevelFeatures(feature_dict, join_features) ==
  Without(Without(join_features, Range(FeaturesNotInModel(feature_dict, join_features))),
          Levels(feature_dict))

\* column = [column] for a column that is not a list
AsList(column) == [list |-> TRUE, cols |-> column.cols]

AsLists(join_columns) == [i \in 1..Len(join_columns) |-> AsList(join_columns[i])]

ColsOf(join_columns) == [i \in 1..Len(join_columns) |-> join_columns[i].cols]

\* missing_join_columns
MissingJoinColumns(join_columns, column_set) ==
  Without(Concat(ColsOf(join_columns)), column_set)

\* key_dict[join_feature]["key_cols"] of the levels of the model's project:
\* Day has one key column that is not its value column, Item a key of two
\* columns, every other level its value column as key
KeyCols(join_feature) ==
  CASE join_feature = <<"Day">> -> << <<"day_id">> >>
    [] join_feature = <<"Item">> -> << <<"item_id">>, <<"item_sk">> >>
    [] OTHER -> <<join_feature>>

\* key_dict[join_feature]["value_col"]
ValueCol(join_feature) ==
  CASE join_feature = <<"Day">> -> <<"day_name">>
    [] join_feature = <<"Item">> -> <<"item_name">>
    [] OTHER -> join_feature

\* a key-count test that lets a list with too many columns pass
KeyCountDiffersWhenFewer(join_feature, join_column) ==
  Len(join_column.cols) < Len(KeyCols(join_feature))

\* len(join_column) != len(key_cols)
KeyCountDiffers(join_feature, join_column) ==
  Len(join_column.cols) # Len(KeyCols(join_feature))

\* a mapping test that does not look at the value column
NeedsMappingOfAnyKey(join_feature, join_column) ==
  /\ Len(KeyCols(join_feature)) = 1
  /\ join_column.cols[1] # KeyCols(join_feature)[1]

\* the join column is taken for an alias of the value column
NeedsMapping(join_feature, join_column) ==
  /\ Len(KeyCols(join_feature)) = 1
  /\ KeyCols(join_feature)[1] # ValueCol(join_feature)
  /\ join_column.cols[1] # KeyCols(join_feature)[1]

\* the join column is neither the value column nor the feature name
NeedsPrompt(join_feature, join_column) ==
  /\ join_column.cols[1] # ValueCol(join_feature)
  /\ join_column.cols[1] # join_feature

\* without connection or dataframe: the key/value mismatch that is logged
Warns(join_feature, join_column) ==
  /\ Len(join_column.cols) = 1
  /\ KeyCols(join_feature)[1] # ValueCol(join_feature)
  /\ KeyCols(join_feature)[1] # join_column.cols[1]

(* ------------------------ _generate_atscale_query ---------------------- *)
\* The query string is a sequence of tokens.  A filter value is a string, a
\* number or a boolean with the text str() gives it; a filter parameter is
\* a dict in insertion order, a sequence of [key, value] entries.

StrVal(text) == [type |-> "str", text |-> text]

NumVal(text) == [type |-> "num", text |-> <<text>>]

BoolVal(text) == [type |-> "bool", text |-> <<text>>]

\* isinstance(value, (int, float, bool))
IsNumber(value) == value.type # "str"

\* the backquote character as a token
BQ == "backquote"

\* a name between backquotes
Backtick(name) == <<BQ>> \o name \o <<BQ>>

\* f"'{value}'"
Quoted(text) == <<"'">> \o text \o <<"'">>

\* sep.join(parts); the separator is a sequence of tokens
RECURSIVE JoinWith(_, _)
JoinWith(sep, parts) ==
  IF parts = <<>> THEN <<>>
  ELSE IF Len(parts) = 1 THEN parts[1]
  ELSE parts[1] \o sep \o JoinWith(sep, Tail(parts))

\* str.upper of the ordering of an order_by tuple
Upper(dir) ==
  CASE dir = "asc" -> "ASC" [] dir = "desc" -> "DESC" [] OTHER -> dir

\* the test of an order_by item
OrderItemComplies(item) == item.tuple /\ Upper(item.dir) \in {"ASC", "DESC"}

\* the elements of a list that comply (keep TRUE) or do not (keep FALSE)
RECURSIVE OrderItems(_, _)
OrderItems(order_by, keep) ==
  IF order_by = <<>> THEN <<>>
  ELSE (IF OrderItemComplies(Head(order_by)) = keep THEN <<Head(order_by)>> ELSE <<>>)
         \o OrderItems(Tail(order_by), keep)

\* ordering_strings
OrderingStrings(order_by) ==
  LET items == OrderItems(order_by, TRUE)
  IN  [i \in 1..Len(items) |-> Backtick(items[i].name) \o <<" ", Upper(items[i].dir)>>]

\* ordering_features
OrderingFeatures(order_by) ==
  LET items == OrderItems(order_by, TRUE)
  IN  [i \in 1..Len(items) |-> items[i].name]

\* model_utils._check_features: the names of a list that the check list
\* does not have; the check raises one UserError naming them
UnknownNames(features, check_list) == Without(features, check_list)

\* a list that keeps its repeats
DedupedKeepsRepeats(feature_list, feature_set) == feature_list

\* deduped_feature_list
RECURSIVE Deduped(_, _)
Deduped(feature_list, feature_set) ==
  IF feature_list = <<>> THEN <<>>
  ELSE IF Head(feature_list) \notin feature_set
       THEN <<Head(feature_list)>>
              \o Deduped(Tail(feature_list), feature_set \cup {Head(feature_list)})
       ELSE Deduped(Tail(feature_list), feature_set)

\* repeats
RECURSIVE Repeats(_, _)
Repeats(feature_list, feature_set) ==
  IF feature_list = <<>> THEN <<>>
  ELSE IF Head(feature_list) \notin feature_set
       THEN Repeats(Tail(feature_list), feature_set \cup {Head(feature_list)})
       ELSE <<Head(feature_list)>> \o Repeats(Tail(feature_list), feature_set)

\* the features of the list with a compound key, for which a warning is logged
CompoundKeyFeatures(categoricals) ==
  {categoricals[j].name :
     j \in {i \in 1..Len(categoricals) : Len(KeyCols(BaseNameOf(categoricals[i]))) > 1}}

\* the parameters checked after the feature list, in order
ListParams ==
  << "filter_equals", "filter_greater", "filter_less", "filter_greater_or_equal",
     "filter_less_or_equal", "filter_not_equal", "filter_in", "filter_between",
     "filter_like", "filter_rlike", "filter_null", "filter_not_null" >>

NoFilters == [p \in Range(ListParams) |-> <<>>]

\* the keys of a filter parameter
KeysOf(param) == [i \in 1..Len(param) |-> param[i].key]

\* the value of a comparison rendered as a feature, as a string literal or bare
RenderValue(value, list_all) ==
  IF ~IsNumber(value)
  THEN IF value.text \in list_all THEN Backtick(value.text) ELSE Quoted(value.text)
  ELSE value.text

\* the predicate of filter_equals, filter_greater, ... for one key
Comparison(op, key, value, list_all) ==
  <<"(">> \o Backtick(key) \o <<" ", op, " ">> \o RenderValue(value, list_all) \o <<")">>

Comparisons(op, param, list_all) ==
  [i \in 1..Len(param) |-> Comparison(op, param[i].key, param[i].value, list_all)]

\* the predicate of filter_like and filter_rlike
LikePredicates(op, param) ==
  [i \in 1..Len(param) |->
     <<"(">> \o Backtick(param[i].key) \o <<" ", op, " ">>
       \o Quoted(param[i].value.text) \o <<")">>]

TextsOf(values) == [i \in 1..Len(values) |-> values[i].text]

\* the predicate of filter_in: the type of the first value decides
InPredicate(key, values) ==
  IF ~IsNumber(values[1])
  THEN <<"(">> \o Backtick(key) \o <<" IN (", "'">>
         \o JoinWith(<<"'", ", ", "'">>, TextsOf(values)) \o <<"'", ")", ")">>
  ELSE <<"(">> \o Backtick(key) \o <<" IN (">>
         \o JoinWith(<<", ">>, TextsOf(values)) \o <<")", ")">>

InPredicates(param) == [i \in 1..Len(param) |-> InPredicate(param[i].key, param[i].value)]

\* the predicate of filter_between
BetweenPredicates(param, list_all) ==
  [i \in 1..Len(param) |->
     <<"(">> \o Backtick(param[i].key) \o <<" BETWEEN ">>
       \o RenderValue(param[i].value[1], list_all) \o <<" and ">>
       \o RenderValue(param[i].value[2], list_all) \o <<")">>]

\* the predicate of filter_null and filter_not_null
NullPredicates(op, param) ==
  [i \in 1..Len(param) |-> <<"(">> \o Backtick(param[i].key) \o <<" ", op, ")">>]

\* the predicates of the WHERE clause in the order they are appended
Predicates(f, list_all) ==
  Comparisons("=", f.filter_equals, list_all)
    \o Comparisons(">", f.filter_greater, list_all)
    \o Comparisons("<", f.filter_less, list_all)
    \o Comparisons(">=", f.filter_greater_or_equal, list_all)
    \o Comparisons("<=", f.filter_less_or_equal, list_all)
    \o Comparisons("<>", f.filter_not_equal, list_all)
    \o LikePredicates("LIKE", f.filter_like)
    \o LikePredicates("RLIKE", f.filter_rlike)
    \o InPredicates(f.filter_in)
    \o BetweenPredicates(f.filter_between, list_all)
    \o NullPredicates("IS NULL", f.filter_null)
    \o NullPredicates("IS NOT NULL", f.filter_not_null)

\* a WHERE clause without the group around its predicates
FilterStringUngrouped(f, list_all) ==
  IF \E p \in Range(ListParams) : f[p] # <<>>
  THEN <<" WHERE ">> \o JoinWith(<<" and ">>, Predicates(f, list_all))
  ELSE <<>>

\* filter_string
FilterString(f, list_all) ==
  IF \E p \in Range(ListParams) : f[p] # <<>>
  THEN <<" WHERE (">> \o JoinWith(<<" and ">>, Predicates(f, list_all)) \o <<")">>
  ELSE <<>>

\* categorical_columns
CategoricalColumns(feature_list, all_features) ==
  LET names == Without(feature_list, {all_features[i].name : i \in
                     {j \in 1..Len(all_features) : all_features[j].feature_type # "Categorical"}})
  IN  [i \in 1..Len(names) |-> Backtick(names[i])]

\* order_string
OrderString(ordering_strings, feature_list, all_features) ==
  IF ordering_strings # <<>>
  THEN <<" ORDER BY ">> \o JoinWith(<<", ">>, ordering_strings)
  ELSE LET categorical_columns == CategoricalColumns(feature_list, all_features)
       IN  IF categorical_columns # <<>>
           THEN <<" ORDER BY ">> \o JoinWith(<<", ">>, categorical_columns)
           ELSE <<>>

\* all_columns_string
AllColumnsString(feature_list) ==
  <<" ">> \o JoinWith(<<", ">>, [i \in 1..Len(feature_list) |-> Backtick(feature_list[i])])

\* the query string
QueryString(in, feature_list, filter_string, order_string) ==
  <<"/* AtScale AI-Link Library Version: ", "version", " */ ", "SELECT">>
    \o (IF in.use_aggs THEN <<>> ELSE <<" /* use_aggs(false) */">>)
    \o (IF in.gen_aggs THEN <<>> ELSE <<" /* generate_aggs(false) */">>)
    \o AllColumnsString(feature_list)
    \o <<" FROM ">> \o Backtick(<<"project">>) \o <<".">> \o Backtick(<<"model">>)
    \o filter_string \o order_string
    \o (IF in.hasLimit THEN <<" LIMIT ", in.limit>> ELSE <<>>)
    \o (IF in.hasComment THEN <<" /* ", in.comment, " */">> ELSE <<>>)

(* --------------------------- _generate_db_query ------------------------ *)
\* An entry of the query log of the service: the query text, the succeeded
\* flag (the key may be absent), the failure message, the timeline events
\* and the query id.  A warehouse query is a sequence of tokens.

LogEntry(query_text, hasSucceeded, succeeded, failure_message, timeline_events, query_id) ==
  [ query_text |-> query_text, hasSucceeded |-> hasSucceeded, succeeded |-> succeeded,
    failure_message |-> failure_message, timeline_events |-> timeline_events,
    query_id |-> query_id ]

\* a timeline event; children[0] of a SubqueriesWall event is the subquery
TimelineEvent(type, truncated, query_text, query_id) ==
  [ type |-> type,
    children |-> <<[ query_text_truncated |-> truncated, query_text |-> query_text,
                     query_id |-> query_id ]>> ]

\* query_info.get("succeeded", False) == False
Failed(query_info) == ~query_info.hasSucceeded \/ ~query_info.succeeded

\* the text the fullquerytext endpoint returns for a subquery of a query
FullQueryText(query_id, subquery) == <<"full text of ", query_id, "/", subquery>>

\* the first SubqueriesWall event of a timeline (0: none)
FirstWall(timeline_events) ==
  MinOf({i \in 1..Len(timeline_events) : timeline_events[i].type = "SubqueriesWall"})

\* the warehouse query of a SubqueriesWall event
SubqueryText(query_info, event) ==
  IF event.children[1].query_text_truncated
  THEN FullQueryText(query_info.query_id, event.children[1].query_id)
  ELSE event.children[1].query_text

\* every comment of the submitted query is put in front of the warehouse query
RECURSIVE WithComments(_, _)
WithComments(comment_match, db_query) ==
  IF comment_match = <<>> THEN db_query
  ELSE WithComments(Tail(comment_match), <<Head(comment_match), " ">> \o db_query)

(* ---------------------------------- Iris ------------------------------- *)
\* A statement is a sequence of tokens.  A dataframe is the list of its
\* rows, a row the list of its cells in column order.

\* the smaller of two numbers
Min(a, b) == IF a <= b THEN a ELSE b

\* _create_table_path
TablePath(table_name) == <<"namespace", ".", "schema", ".", table_name>>

\* operation[:-n] where the last token holds the n characters cut off
DropLast(operation) == SubSeq(operation, 1, Len(operation) - 1)

\* the columns of a statement, each followed by ", "
RECURSIVE ColumnList(_)
ColumnList(columns) ==
  IF columns = <<>> THEN <<>>
  ELSE <<"\"", Head(columns), "\"", ", ">> \o ColumnList(Tail(columns))

\* the head of the INSERT statements of a dataframe
InsertOperation(table_name, columns) ==
  DropLast(<<"INSERT INTO ">> \o TablePath(table_name) \o <<" (">> \o ColumnList(columns))
    \o <<") ">>

\* the cells of a row, each between quotes and followed by ", "
RECURSIVE CellList(_)
CellList(row) ==
  IF row = <<>> THEN <<>>
  ELSE <<"'", Head(row), "'", ", ">> \o CellList(Tail(row))

\* the SELECT of every row of a chunk, each followed by " UNION ALL "
RECURSIVE SelectList(_)
SelectList(df) ==
  IF df = <<>> THEN <<>>
  ELSE <<"SELECT ">> \o DropLast(CellList(Head(df))) \o <<" UNION ALL ">>
         \o SelectList(Tail(df))

\* op_copy: the INSERT statement of one chunk
InsertStatement(operation, df) == DropLast(operation \o SelectList(df))

\* chunks that leave out the rows after the last full chunk
FullChunks(dataframe, chunksize) ==
  LET starts == {i \in 0..(Len(dataframe) - 1) : i % chunksize = 0 /\ i + chunksize <= Len(dataframe)}
  IN  [k \in 1..Cardinality(starts) |->
         SubSeq(dataframe, (k - 1) * chunksize + 1, k * chunksize)]

\* list_df: dataframe[i : i + chunksize] for i in range(0, n, chunksize)
ListDf(dataframe, chunksize) ==
  LET starts == {i \in 0..(Len(dataframe) - 1) : i % chunksize = 0}
  IN  [k \in 1..Cardinality(starts) |->
         SubSeq(dataframe, (k - 1) * chunksize + 1,
                Min(k * chunksize, Len(dataframe)))]

\* _create_table for a dataframe whose cells are strings
CreateTable(table_name, columns) ==
  DropLast(<<"CREATE TABLE ">> \o TablePath(table_name) \o <<" (">>
             \o ColumnList(columns)) \o <<")">>

\* the DROP TABLE statement of if_exists = REPLACE
DropTable(table_name) == <<"DROP TABLE ">> \o TablePath(table_name)

(* -------------------------------- eda.stats ---------------------------- *)
\* the parameters of SQLConnection._warehouse_variance, all required
WarehouseVarianceParams ==
  { "data_model", "write_database", "write_schema", "feature", "granularity_levels",
    "if_exists", "samp" }

\* the keywords of the call of _warehouse_variance in stats.variance
VarianceKeywords ==
  { "data_model", "write_database", "write_schema", "feature", "granularity_levels",
    "if_exists", "samp" }

\* the keywords of the call of _warehouse_variance in _warehouse_std
StdKeywords ==
  { "dbconn", "data_model", "write_database", "write_schema", "feature",
    "granularity_level", "if_exists", "samp" }

\* a call by keywords binds when every keyword is a parameter and every
\* required parameter is given; otherwise Python raises TypeError
Binds(params, keywords) == keywords \subseteq params /\ params \subseteq keywords

\* what the warehouse computes for a feature at a granularity: the variance
\* of the sample or of the population, or a failure of the statistics query
WarehouseVar(feature, granularity_levels, samp) ==
  CASE feature = "Sales" -> [failed |-> FALSE, var |-> IF samp THEN 4 ELSE 1]
    [] feature = "Weight" ->
         [failed |-> FALSE, var |-> IF Len(granularity_levels) = 1 THEN 9 ELSE 0]
    [] OTHER -> [failed |-> TRUE, var |-> 0]

\* numpy.sqrt of a variance that is a square
Sqrt(v) == CHOOSE r \in 0..v : r * r = v

(* ------------------------ _create_perspective ------------------------- *)
\* the position of the first element of a list with a given name (0: none)
NameIndex(s, name) == MinOf({i \in 1..Len(s) : s[i].name = name})

\* data_model.get_hierarchies(secondary_attribute=False): the names of the
\* hierarchies of the model that are not secondary attributes
HierarchyInfo(catalog) ==
  UNION {Range(catalog[i].hierarchy) :
           i \in {j \in 1..Len(catalog) :
                    catalog[j].feature_type = "Categorical"
                    /\ ~catalog[j].secondary_attribute}}

\* zip(info["hierarchy"], info.get("base_hierarchy", info["hierarchy"]))
HierarchyPairs(info) ==
  LET base == IF info.hasBase THEN info.base_hierarchy ELSE info.hierarchy
      n == IF Len(info.hierarchy) <= Len(base) THEN Len(info.hierarchy) ELSE Len(base)
  IN  [k \in 1..n |-> [hier |-> info.hierarchy[k],
                       val |-> [base_hierarchy |-> base[k],
                                ref_id |-> info.roleplay_ref_id]]]

RECURSIVE HierarchyRoleplaysFrom(_, _)
HierarchyRoleplaysFrom(acc, pairs) ==
  IF pairs = <<>> \/ ~Evaluated(acc) THEN acc
  ELSE HierarchyRoleplaysFrom(
         IF Head(pairs).hier \in DOMAIN acc THEN acc
         ELSE SetAt(acc, Head(pairs).hier, Head(pairs).val),
         Tail(pairs))

\* hierarchy_roleplays: the first catalog entry that lists a hierarchy wins
HierarchyRoleplays(catalog) ==
  HierarchyRoleplaysFrom(EmptyDict,
    Concat([i \in 1..Len(catalog) |-> HierarchyPairs(catalog[i])]))

RECURSIVE DimensionRoleplaysFrom(_, _)
DimensionRoleplaysFrom(acc, catalog) ==
  IF catalog = <<>> \/ ~Evaluated(acc) THEN acc
  ELSE DimensionRoleplaysFrom(
         IF Head(catalog).dimension \in DOMAIN acc THEN acc
         ELSE SetAt(acc, Head(catalog).dimension,
                    [base_dimension |-> IF Head(catalog).hasBase
                                        THEN Head(catalog).base_dimension
                                        ELSE Head(catalog).dimension,
                     ref_id |-> Head(catalog).roleplay_ref_id]),
         Tail(catalog))

\* dimension_roleplays: the first catalog entry of a dimension wins
DimensionRoleplays(catalog) == DimensionRoleplaysFrom(EmptyDict, catalog)

\* project dimensions followed by the cube's own dimensions
AllDimensions(desc) == desc.dims \o desc.cubeDims

EmptyOverlay ==
  [ flat_attributes |-> <<>>, calculated |-> <<>>, dims |-> <<>>,
    hidden_dimensions |-> <<>>, hidden_hierarchies |-> <<>>, error |-> FALSE ]

\* one numeric feature: measures and metrical attributes go to the flat
\* attributes, calculated measures to the calculated members
HideNumericFeature(desc, numeric_info, acc, feature) ==
  LET info == numeric_info[IndexOf(numeric_info, feature)]
      base == BaseNameOf(info)
      measures == desc.metrical \o desc.measures
      m == NameIndex(measures, base)
      c == NameIndex(desc.calcs, feature)
  IN  IF info.atscale_type # "Calculated"
      THEN IF m = 0 THEN [acc EXCEPT !.error = TRUE]
           ELSE [acc EXCEPT !.flat_attributes =
                   Append(@, [id |-> measures[m].id, visible |-> FALSE,
                              hasRef |-> base # feature,
                              ref_id |-> IF base # feature THEN info.roleplay_ref_id
                                         ELSE ""])]
      ELSE IF c = 0 THEN [acc EXCEPT !.error = TRUE]
           ELSE [acc EXCEPT !.calculated =
                   Append(@, [id |-> desc.calcs[c].id, visible |-> FALSE])]

RECURSIVE HideNumeric(_, _, _, _)
HideNumeric(desc, numeric_info, ov, numeric_features) ==
  IF numeric_features = <<>> \/ ov.error THEN ov
  ELSE HideNumeric(desc, numeric_info,
         HideNumericFeature(desc, numeric_info, ov, Head(numeric_features)),
         Tail(numeric_features))

\* "first we do dimensions because they are the highest level"
HideDimension(desc, dimension_roleplays, acc, dimension) ==
  LET known == dimension \in DOMAIN dimension_roleplays
      d == IF known
           THEN NameIndex(AllDimensions(desc), dimension_roleplays[dimension].base_dimension)
           ELSE 0
      roleplayed == dimension # dimension_roleplays[dimension].base_dimension
  IN  IF d = 0 THEN [acc EXCEPT !.error = TRUE]
      ELSE [acc EXCEPT
              !.dims = Append(@,
                 [ id |-> AllDimensions(desc)[d].id, visible |-> FALSE,
                   hasRefPath |-> roleplayed,
                   ref_id |-> IF roleplayed THEN dimension_roleplays[dimension].ref_id
                              ELSE "",
                   hrefs |-> <<>> ]),
              !.hidden_dimensions = Append(@, dimension)]

RECURSIVE HideDimensionsFrom(_, _, _, _)
HideDimensionsFrom(desc, dimension_roleplays, ov, dimensions) ==
  IF dimensions = <<>> \/ ov.error THEN ov
  ELSE HideDimensionsFrom(desc, dimension_roleplays,
         HideDimension(desc, dimension_roleplays, ov, Head(dimensions)),
         Tail(dimensions))

HideDimensions(desc, catalog, ov, dimensions) ==
  HideDimensionsFrom(desc, DimensionRoleplays(catalog), ov, dimensions)

\* the overlay node a request merges into: the first node of the same
\* dimension id whose roleplay agrees with the request (0: none)
MatchingNode(nodes, dimension_id, ref_id, roleplayed) ==
  MinOf({i \in 1..Len(nodes) :
           /\ nodes[i].id = dimension_id
           /\ IF nodes[i].hasRefPath THEN nodes[i].ref_id = ref_id ELSE ~roleplayed})

\* the first project hierarchy with the base name of the requested
\* hierarchy whose dimension's own name is not in hidden_dimensions (0: none)
FindHierarchy(dhs, base_hierarchy, hidden_dimensions) ==
  MinOf({i \in 1..Len(dhs) :
           /\ dhs[i].hierarchy.name = base_hierarchy
           /\ dhs[i].dimension.name \notin Range(hidden_dimensions)})

\* "second are hierarchies": one requested hierarchy
HideHierarchy(desc, hierarchy_roleplays, acc, hierarchy) ==
  LET hr == hierarchy_roleplays[hierarchy]
      dhs == HierarchiesOf(AllDimensions(desc))
      f == FindHierarchy(dhs, hr.base_hierarchy, acc.hidden_dimensions)
      dimension == dhs[f].dimension
      hierarchy_dict == [id |-> dhs[f].hierarchy.id, visible |-> FALSE, lrefs |-> <<>>]
      roleplayed == hierarchy # hr.base_hierarchy
      k == MatchingNode(acc.dims, dimension.id, hr.ref_id, roleplayed)
  IN  IF hierarchy \notin DOMAIN hierarchy_roleplays THEN [acc EXCEPT !.error = TRUE]
      ELSE IF f = 0 THEN acc
      ELSE [acc EXCEPT
              !.dims =
                 IF k # 0 THEN [@ EXCEPT ![k].hrefs = Append(@, hierarchy_dict)]
                 ELSE Append(@, [ id |-> dimension.id, visible |-> TRUE,
                                  hasRefPath |-> roleplayed,
                                  ref_id |-> IF roleplayed THEN hr.ref_id ELSE "",
                                  hrefs |-> <<hierarchy_dict>> ]),
              !.hidden_hierarchies = Append(@, hierarchy)]

RECURSIVE HideHierarchiesFrom(_, _, _, _)
HideHierarchiesFrom(desc, hierarchy_roleplays, ov, hierarchies) ==
  IF hierarchies = <<>> \/ ov.error THEN ov
  ELSE HideHierarchiesFrom(desc, hierarchy_roleplays,
         HideHierarchy(desc, hierarchy_roleplays, ov, Head(hierarchies)),
         Tail(hierarchies))

HideHierarchies(desc, catalog, ov, hierarchies) ==
  HideHierarchiesFrom(desc, HierarchyRoleplays(catalog), ov, hierarchies)

\* the level branch of the categorical phase for one project hierarchy:
\* merge into the matching dimension node or create one
HideLevel(nodes, dimension, hier, attribute, info) ==
  LET roleplayed == info.name # BaseNameOf(info)
      level_dict == [primary |-> attribute.id, visible |-> FALSE]
      k == MatchingNode(nodes, dimension.id, info.roleplay_ref_id, roleplayed)
      h == MinOf({j \in 1..Len(nodes[k].hrefs) : nodes[k].hrefs[j].id = hier.id})
  IN  IF k # 0
      THEN IF h # 0
           THEN [nodes EXCEPT ![k].hrefs[h].lrefs = Append(@, level_dict)]
           ELSE [nodes EXCEPT ![k].hrefs =
                   Append(@, [id |-> hier.id, visible |-> TRUE, lrefs |-> <<>>])]
      ELSE Append(nodes,
             [ id |-> dimension.id, visible |-> TRUE,
               hasRefPath |-> roleplayed,
               ref_id |-> IF roleplayed THEN info.roleplay_ref_id ELSE "",
               hrefs |-> << [id |-> hier.id, visible |-> TRUE,
                             lrefs |-> <<level_dict>>] >> ])

\* the body of "for hier in dimension.get("hierarchy")" for one feature: the
\* first of the feature's hierarchies that passes the test is acted on
HideInHierarchy(desc, hierarchy_roleplays, secondary_attribute, info, acc, dh) ==
  LET hierarchies == info.hierarchy
      attributes == desc.keyed \o desc.cubeKeyed
      a == NameIndex(attributes, BaseNameOf(info))
      roleplayed == info.name # BaseNameOf(info)
      hit == MinOf({j \in 1..Len(hierarchies) :
                 \/ secondary_attribute
                 \/ /\ dh.hierarchy.name = hierarchy_roleplays[hierarchies[j]].base_hierarchy
                    /\ hierarchies[j] \notin Range(acc.hidden_hierarchies)})
  IN  IF hit = 0 \/ a = 0 THEN acc
      ELSE IF secondary_attribute
      THEN IF roleplayed /\ ~info.hasRefId THEN [acc EXCEPT !.error = TRUE]
           ELSE [acc EXCEPT !.flat_attributes =
                   Append(@, [id |-> attributes[a].id, visible |-> FALSE,
                              hasRef |-> roleplayed,
                              ref_id |-> IF roleplayed THEN info.roleplay_ref_id ELSE ""])]
      ELSE IF roleplayed /\ ~info.hasRefId
              /\ MatchingNode(acc.dims, dh.dimension.id, "", TRUE) = 0
      THEN [acc EXCEPT !.error = TRUE]
      ELSE [acc EXCEPT !.dims = HideLevel(@, dh.dimension, dh.hierarchy, attributes[a], info)]

RECURSIVE HideInHierarchies(_, _, _, _, _, _)
HideInHierarchies(desc, hierarchy_roleplays, secondary_attribute, info, acc, dhs) ==
  IF dhs = <<>> \/ acc.error THEN acc
  ELSE HideInHierarchies(desc, hierarchy_roleplays, secondary_attribute, info,
         HideInHierarchy(desc, hierarchy_roleplays, secondary_attribute, info, acc, Head(dhs)),
         Tail(dhs))

\* "last we do the attributes": one requested categorical feature
HideCategoricalFeature(desc, catalog, hierarchy_roleplays, hierarchy_info, acc, feature) ==
  LET info == catalog[IndexOf(catalog, feature)]
      hierarchies == info.hierarchy
      secondary_attribute == hierarchies[1] \notin hierarchy_info
  IN  IF \/ info.dimension \in Range(acc.hidden_dimensions)
         \/ \A x \in Range(hierarchies) : x \in Range(acc.hidden_hierarchies)
      THEN acc
      ELSE HideInHierarchies(desc, hierarchy_roleplays, secondary_attribute, info, acc,
                             HierarchiesOf(AllDimensions(desc)))

RECURSIVE HideCategoricalFrom(_, _, _, _, _, _)
HideCategoricalFrom(desc, catalog, hierarchy_roleplays, hierarchy_info, ov, features) ==
  IF features = <<>> \/ ov.error THEN ov
  ELSE HideCategoricalFrom(desc, catalog, hierarchy_roleplays, hierarchy_info,
         HideCategoricalFeature(desc, catalog, hierarchy_roleplays, hierarchy_info, ov,
                                Head(features)),
         Tail(features))

HideCategorical(desc, catalog, ov, categorical_features) ==
  HideCategoricalFrom(desc, catalog, HierarchyRoleplays(catalog), HierarchyInfo(catalog),
                      ov, categorical_features)

(* ------------------------------ state ---------------------------------- *)
Callers == {1, 2}

Nope == <<"Nope">>

VARIABLES
  param,      \* the parameters of the project descriptor
  persisted,  \* the perspectives of the descriptor kept by the Project
  uuids,      \* number of ids drawn from uuid.uuid4() so far
  log,        \* the _update_project calls made so far, in order
  call,       \* per caller: the frame of its _create_perspective call
  parser,     \* the frame of a _parse_categorical_features call
  joins,      \* the frame of a _check_joins call
  query,      \* the frame of a _generate_atscale_query call
  explain,    \* the frame of a _generate_db_query call
  db,         \* an Iris connection: its table and the frame of a call on it
  stats       \* the frame of an eda.stats call

vars == <<param, persisted, uuids, log, call, parser, joins, query, explain, db, stats>>

NoRequest ==
  [ name |-> "", update |-> FALSE, dimensions |-> <<>>, hierarchies |-> <<>>,
    categorical_features |-> <<>>, numeric_features |-> <<>> ]

IdleCall ==
  [ pc |-> "idle", req |-> NoRequest, project_dict |-> <<>>, perspective_id |-> 0,
    numeric_features_info |-> <<>>, categorical_feature_info |-> <<>>,
    ov |-> EmptyOverlay, phases |-> <<>>, updates |-> 0, ret |-> 0, seen |-> 0,
    ncalls |-> 0 ]

IdleParser ==
  [ pc |-> "idle", roleplay_ids |-> EmptyDict, last_run |-> FALSE, done |-> FALSE,
    starting_roleplays |-> 0, passes |-> 0,
    next |-> 1, dim_to_id_dict |-> <<>>, return_dict |-> <<>>, catalog |-> <<>>,
    feature_list |-> NoneList, folder_list |-> NoneList, feature_type |-> "All" ]

\* a perspective already in the project before any call of the model
NoJoinInput ==
  [ join_features |-> <<>>, hasColumns |-> FALSE, join_columns |-> <<>>,
    hasRoleplay |-> FALSE, roleplay_features |-> <<>>, column_set |-> {},
    dbconn |-> FALSE, df |-> FALSE ]

NoJoinError ==
  [ rule |-> 0, lengths |-> <<>>, features_not_in_model |-> <<>>,
    non_level_features |-> <<>>, missing_join_columns |-> <<>>,
    join_feature |-> <<>>, key_cols |-> <<>>, join_column |-> <<>> ]

\* the frame of a _check_joins call: its arguments, its locals, the rows
\* merged into df, the prompts, key fetches and warnings made so far in
\* order, and the UserError raised
IdleJoins ==
  [ pc |-> "idle", input |-> NoJoinInput, join_features |-> <<>>,
    join_columns |-> <<>>, roleplay_features |-> <<>>, feature_dict |-> <<>>,
    i |-> 1, merged |-> <<>>, events |-> <<>>, error |-> NoJoinError ]

NoQueryInput ==
  [ feature_list |-> <<>>, filters |-> NoFilters, order_by |-> <<>>,
    hasLimit |-> FALSE, limit |-> "", hasComment |-> FALSE, comment |-> "",
    use_aggs |-> TRUE, gen_aggs |-> TRUE, raise_multikey_warning |-> TRUE ]

NoQueryError == [place |-> "", items |-> <<>>]

\* the frame of a _generate_atscale_query call: its arguments, its locals,
\* what it logged, the UserError raised and the query returned
IdleQuery ==
  [ pc |-> "idle", input |-> NoQueryInput, all_features |-> <<>>,
    ordering_strings |-> <<>>, ordering_features |-> <<>>, feature_list |-> <<>>,
    repeats |-> <<>>, compound |-> {}, predicates |-> <<>>, filter_string |-> <<>>,
    order_string |-> <<>>, error |-> NoQueryError, query |-> <<>> ]

OldPerspective ==
  [ id |-> 0, name |-> "P1", cube_ref |-> "cube1", calculated |-> <<>>,
    flat_attributes |-> <<>>, flat_dimensions |-> <<>> ]

\* the hide lists whose total length is n, over the names of the model of
\* a descriptor and one name the model does not have
HideLists(desc, n) ==
  LET categorical == _get_draft_features(desc, NoneList, NoneList, "Categorical")
      numeric == _get_draft_features(desc, NoneList, NoneList, "Numeric")
      D == DOMAIN DimensionRoleplays(categorical) \cup {Nope}
      H == HierarchyInfo(categorical) \cup {Nope}
      C == NamesOf(categorical) \cup {Nope}
      N == NamesOf(numeric) \cup {Nope}
      splits == {x \in [1..4 -> 0..n] : x[1] + x[2] + x[3] + x[4] = n}
  IN  UNION {[dimensions : [1..x[1] -> D], hierarchies : [1..x[2] -> H],
              categorical_features : [1..x[3] -> C], numeric_features : [1..x[4] -> N]]
               : x \in splits}

Request(name, update, lists) ==
  [ name |-> name, update |-> update, dimensions |-> lists.dimensions,
    hierarchies |-> lists.hierarchies,
    categorical_features |-> lists.categorical_features,
    numeric_features |-> lists.numeric_features ]

NoExplainQuery == [text |-> "", comment_match |-> <<>>]

\* the frame of a _generate_db_query call: the query posted, the log the
\* service returned, the position of the loop over it, the full-text
\* requests made, the AtScaleServerError raised and the query returned
IdleExplain ==
  [ pc |-> "idle", atscale_query |-> NoExplainQuery, data |-> <<>>, i |-> 1,
    db_query |-> <<>>, fetched |-> <<>>, error |-> "", result |-> <<>> ]

NoWrite == [dataframe |-> <<>>, chunksize |-> 1, if_exists |-> "FAIL", tables |-> "none"]

\* an Iris connection and the frame of a call on it.  For
\* execute_statements: the statement list, the position of the loop, the
\* effects of the open transaction and the effects committed.  For
\* write_df_to_db: the arguments, the head of the INSERT statements, the
\* chunks, the position of the loop and the statements the cursor executed.
IdleDb ==
  [ pc |-> "idle", statement_list |-> <<>>, i |-> 1, pending |-> <<>>,
    committed |-> <<>>, error |-> "", input |-> NoWrite, operation |-> <<>>,
    list_df |-> <<>>, executed |-> <<>> ]

NoStatsInput ==
  [ fn |-> "", feature |-> "", granularity_levels |-> <<>>, sample |-> TRUE,
    if_exists |-> "FAIL", write_database |-> "", checks_pass |-> TRUE ]

\* the frame of a call of stats.variance or stats.std: the arguments, the
\* keywords of the pending call of _warehouse_variance, the variance the
\* warehouse gave, the exception raised and the value returned
IdleStats ==
  [ pc |-> "idle", input |-> NoStatsInput, write_database |-> "", keywords |-> {},
    var |-> 0, error |-> "", result |-> 0 ]

(* ------------------- _create_perspective, step by step ------------------ *)
Desc == Descriptor(param)

Set(c, f) == call' = [call EXCEPT ![c] = f]

Idle(c) == call[c].pc \in {"idle", "done", "error"}

\* a caller enters _create_perspective with a request
Call(c, r) ==
  /\ Idle(c)
  /\ call[c].ncalls < MaxCalls
  /\ Set(c, [IdleCall EXCEPT !.pc = "called", !.req = r, !.ncalls = call[c].ncalls + 1])
  /\ UNCHANGED <<param, persisted, uuids, log, parser, joins, query, explain, db, stats>>

\* project_dict = data_model.project._get_dict()
Fetch(c) ==
  /\ call[c].pc = "called"
  /\ Set(c, [call[c] EXCEPT !.pc = "fetched", !.project_dict = persisted,
                            !.seen = Len(log)])
  /\ UNCHANGED <<param, persisted, uuids, log, parser, joins, query, explain, db, stats>>

\* a name check that lets every name through: an update of a missing name
\* draws an id, a create of a present name does too
CheckNameAlwaysPasses(c) ==
  /\ call[c].pc = "fetched"
  /\ Set(c, [call[c] EXCEPT !.pc = "named", !.perspective_id = uuids + 1])
  /\ uuids' = uuids + 1
  /\ UNCHANGED <<param, persisted, log, parser, joins, query, explain, db, stats>>

\* the name check: the id of the perspective to update, or a fresh one
CheckName(c) ==
  /\ call[c].pc = "fetched"
  /\ LET f == call[c]
         same == NameIndex(f.project_dict, f.req.name)
     IN  IF f.req.update
         THEN /\ IF same = 0
                 THEN Set(c, [f EXCEPT !.pc = "error"])
                 ELSE Set(c, [f EXCEPT !.pc = "named",
                                       !.perspective_id = f.project_dict[same].id])
              /\ UNCHANGED uuids
         ELSE IF same # 0
              THEN Set(c, [f EXCEPT !.pc = "error"]) /\ UNCHANGED uuids
              ELSE /\ Set(c, [f EXCEPT !.pc = "named", !.perspective_id = uuids + 1])
                   /\ uuids' = uuids + 1
  /\ UNCHANGED <<param, persisted, log, parser, joins, query, explain, db, stats>>

\* model_utils._check_features: every name is a key of the check list
_check_features(features, check_list) == Range(features) \subseteq check_list

\* the catalogs are assembled and the requested names validated
Validate(c) ==
  /\ call[c].pc = "named"
  /\ LET f == call[c]
         numeric == _get_draft_features(Desc, NoneList, NoneList, "Numeric")
         categorical == _get_draft_features(Desc, NoneList, NoneList, "Categorical")
         ok == /\ _check_features(f.req.numeric_features, NamesOf(numeric))
               /\ _check_features(f.req.categorical_features, NamesOf(categorical))
               /\ _check_features(f.req.hierarchies, HierarchyInfo(categorical))
     IN  Set(c, [f EXCEPT !.pc = IF ok THEN "validated" ELSE "error",
                          !.numeric_features_info = numeric,
                          !.categorical_feature_info = categorical])
  /\ UNCHANGED <<param, persisted, uuids, log, parser, joins, query, explain, db, stats>>

\* one hide phase: from state "from" to state "to", or to "error"; the
\* phases that have completed are kept in order
Phase(c, from, to, ov) ==
  /\ call[c].pc = from
  /\ Set(c, [call[c] EXCEPT !.pc = IF ov.error THEN "error" ELSE to, !.ov = ov,
                            !.phases = IF ov.error THEN @ ELSE Append(@, to)])
  /\ UNCHANGED <<param, persisted, uuids, log, parser, joins, query, explain, db, stats>>

PhaseNumeric(c) ==
  Phase(c, "validated", "numeric_hidden",
        HideNumeric(Desc, call[c].numeric_features_info, EmptyOverlay,
                    call[c].req.numeric_features))

PhaseDimensions(c) ==
  Phase(c, "numeric_hidden", "dimensions_hidden",
        HideDimensions(Desc, call[c].categorical_feature_info, call[c].ov,
                       call[c].req.dimensions))

PhaseHierarchies(c) ==
  Phase(c, "dimensions_hidden", "hierarchies_hidden",
        HideHierarchies(Desc, call[c].categorical_feature_info, call[c].ov,
                        call[c].req.hierarchies))

PhaseCategorical(c) ==
  Phase(c, "hierarchies_hidden", "categorical_hidden",
        HideCategorical(Desc, call[c].categorical_feature_info, call[c].ov,
                        call[c].req.categorical_features))

\* perspective_dict as it is when the phases are over
PerspectiveDict(f) ==
  [ id |-> f.perspective_id, name |-> f.req.name, cube_ref |-> "cube1",
    calculated |-> f.ov.calculated, flat_attributes |-> f.ov.flat_attributes,
    flat_dimensions |-> f.ov.dims ]

\* a patch that appends the perspective whether or not it is an update
PatchDescriptorAlwaysAppends(project_dict, update, perspective_dict) ==
  Append(project_dict, perspective_dict)

\* the caller's copy of the descriptor with the perspective put in
PatchDescriptor(project_dict, update, perspective_dict) ==
  IF update
  THEN [i \in 1..Len(project_dict) |->
          IF project_dict[i].id # perspective_dict.id THEN project_dict[i]
          ELSE perspective_dict]
  ELSE Append(project_dict, perspective_dict)

\* a patch of the descriptor as it is now, not of the caller's copy
PatchOfFreshDescriptor(c) ==
  /\ call[c].pc = "categorical_hidden"
  /\ Set(c, [call[c] EXCEPT !.pc = "patched",
               !.project_dict = PatchDescriptor(persisted, call[c].req.update,
                                                PerspectiveDict(call[c]))])
  /\ UNCHANGED <<param, persisted, uuids, log, parser, joins, query, explain, db, stats>>

\* a patch made before the categorical features are hidden
PatchBeforeCategorical(c) ==
  /\ call[c].pc = "hierarchies_hidden"
  /\ Set(c, [call[c] EXCEPT !.pc = "patched",
               !.project_dict = PatchDescriptor(@, call[c].req.update,
                                                PerspectiveDict(call[c]))])
  /\ UNCHANGED <<param, persisted, uuids, log, parser, joins, query, explain, db, stats>>

\* project_dict is patched with perspective_dict once the phases are over
Patch(c) ==
  /\ call[c].pc = "categorical_hidden"
  /\ Set(c, [call[c] EXCEPT !.pc = "patched",
               !.project_dict = PatchDescriptor(@, call[c].req.update,
                                                PerspectiveDict(call[c]))])
  /\ UNCHANGED <<param, persisted, uuids, log, parser, joins, query, explain, db, stats>>

\* data_model.project._update_project(project_dict, publish): the Project
\* takes the descriptor it is handed as the new descriptor
Update(c) ==
  /\ call[c].pc = "patched"
  /\ persisted' = call[c].project_dict
  /\ log' = Append(log, [caller |-> c, id |-> call[c].perspective_id])
  /\ Set(c, [call[c] EXCEPT !.pc = "updated", !.updates = @ + 1])
  /\ UNCHANGED <<param, uuids, parser, joins, query, explain, db, stats>>

Return(c) ==
  /\ call[c].pc = "updated"
  /\ Set(c, [call[c] EXCEPT !.pc = "done", !.ret = call[c].perspective_id])
  /\ UNCHANGED <<param, persisted, uuids, log, parser, joins, query, explain, db, stats>>

Steps(c) ==
  \/ Fetch(c) \/ CheckName(c) \/ Validate(c)
  \/ PhaseNumeric(c) \/ PhaseDimensions(c) \/ PhaseHierarchies(c) \/ PhaseCategorical(c)
  \/ Patch(c) \/ Update(c) \/ Return(c)

(* ----------------- _get_draft_features, step by step ------------------- *)
\* _parse_categorical_features is entered: roleplay_refs and the seed of
\* roleplay_ids
ParseSeed ==
  /\ parser.pc = "idle"
  /\ parser' = [parser EXCEPT !.pc = IF Len(Desc.keyed) = 0 THEN "returned" ELSE "loop",
                               !.roleplay_ids = SeedRoleplayIds(Desc)]
  /\ UNCHANGED <<param, persisted, uuids, log, call, joins, query, explain, db, stats>>

\* one pass of "while not done"; the passes are counted up to MaxPasses
ParsePass ==
  /\ parser.pc = "loop"
  /\ ~parser.done
  /\ parser.passes < MaxPasses
  /\ \E after \in {PropagatePass(Desc, parser.roleplay_ids, parser.last_run)} :
       \E last_run \in {LastRun(parser.roleplay_ids, after, parser.last_run)} :
         parser' = [parser EXCEPT
                      !.roleplay_ids = after, !.last_run = last_run, !.done = last_run,
                      !.starting_roleplays = Cardinality(DOMAIN parser.roleplay_ids),
                      !.passes = @ + 1]
  /\ UNCHANGED <<param, persisted, uuids, log, call, joins, query, explain, db, stats>>

\* the loop has left: ref_ids and the metrical attributes
ParseMetrical ==
  /\ parser.pc = "loop"
  /\ parser.done
  /\ parser' = [parser EXCEPT !.pc = "emitting",
                               !.roleplay_ids = MetricalRoleplayIds(Desc, @)]
  /\ UNCHANGED <<param, persisted, uuids, log, call, joins, query, explain, db, stats>>

\* the emission walk of the next hierarchy
ParseEmit ==
  /\ parser.pc = "emitting"
  /\ parser.next <= Len(HierarchiesOf(Desc.dims))
  /\ LET dh == HierarchiesOf(Desc.dims)[parser.next]
     IN  parser' = [parser EXCEPT
                      !.next = @ + 1,
                      !.dim_to_id_dict =
                         EmitHierarchy(Desc, parser.roleplay_ids, @, dh.dimension,
                                       dh.hierarchy)]
  /\ UNCHANGED <<param, persisted, uuids, log, call, joins, query, explain, db, stats>>

\* return_dict is built and returned
ParseReturn ==
  /\ parser.pc = "emitting"
  /\ parser.next > Len(HierarchiesOf(Desc.dims))
  /\ parser' = [parser EXCEPT
                  !.pc = "returned",
                  !.return_dict = [i \in 1..Len(parser.dim_to_id_dict) |->
                                     ReturnEntry(parser.dim_to_id_dict[i])]]
  /\ UNCHANGED <<param, persisted, uuids, log, call, joins, query, explain, db, stats>>

\* the feature_list and folder_list arguments of the model: None, or a list
\* with names of the catalog and one name it does not have
FeatureLists == {NoneList, SomeList({<<"Year">>, <<"Sales">>, <<"Weight">>, Nope})}

FolderLists == {NoneList, SomeList({"fCal", "fProd"})}

\* _get_draft_features puts the other parsers' entries in and filters
GetDraft ==
  /\ parser.pc = "returned"
  /\ \E feature_type \in {"All", "Categorical", "Numeric"} :
       \E feature_list \in FeatureLists : \E folder_list \in FolderLists :
         parser' = [parser EXCEPT
                      !.pc = "drafted",
                      !.feature_list = feature_list,
                      !.folder_list = folder_list,
                      !.feature_type = feature_type,
                      !.catalog = _get_draft_features(Desc, feature_list, folder_list,
                                                      feature_type)]
  /\ UNCHANGED <<param, persisted, uuids, log, call, joins, query, explain, db, stats>>

(* ---------------------- _check_joins, step by step --------------------- *)
\* a join column passed as a string, and one passed as a list
Str(c) == [list |-> FALSE, cols |-> <<c>>]

List(cs) == [list |-> TRUE, cols |-> cs]

\* the columns of the table or dataframe
ColumnSet ==
  { <<"day_id">>, <<"day_name">>, <<"Day">>, <<"other">>, <<"item_id">>,
    <<"item_sk">>, <<"Year">>, <<"Item">> }

\* the (join feature, join column) pairs the calls are made of
JoinPairs ==
  { [feature |-> <<"Day">>, column |-> Str(<<"day_id">>)],
    [feature |-> <<"Day">>, column |-> Str(<<"day_name">>)],
    [feature |-> <<"Day">>, column |-> Str(<<"Day">>)],
    [feature |-> <<"Day">>, column |-> Str(<<"other">>)],
    [feature |-> <<"Day">>, column |-> Str(<<"gone">>)],
    [feature |-> <<"Day">>, column |-> List(<< <<"day_id">>, <<"other">> >>)],
    [feature |-> <<"Item">>, column |-> List(<< <<"item_id">>, <<"item_sk">> >>)],
    [feature |-> <<"Item">>, column |-> Str(<<"item_id">>)],
    [feature |-> <<"Year">>, column |-> Str(<<"other">>)],
    [feature |-> <<"Order", "Day">>, column |-> Str(<<"day_id">>)],
    [feature |-> <<"MonthName">>, column |-> Str(<<"other">>)],
    [feature |-> <<"Sales">>, column |-> Str(<<"other">>)],
    [feature |-> Nope, column |-> Str(<<"gone">>)] }

\* how the optional lists are passed: both given, join_columns None,
\* join_columns one short, roleplay_features None, roleplay_features one long
JoinVariants == {"given", "no columns", "short columns", "no roleplay", "long roleplay"}

JoinInput(pairs, variant, dbconn, df) ==
  LET n == Len(pairs)
      m == IF variant = "short columns" /\ n > 0 THEN n - 1 ELSE n
      r == IF variant = "long roleplay" THEN n + 1 ELSE n
  IN  [ join_features |-> [i \in 1..n |-> pairs[i].feature],
        hasColumns |-> variant # "no columns",
        join_columns |-> IF variant = "no columns" THEN <<>>
                         ELSE [i \in 1..m |-> pairs[i].column],
        hasRoleplay |-> variant # "no roleplay",
        roleplay_features |-> IF variant = "no roleplay" THEN <<>>
                              ELSE [i \in 1..r |-> ""],
        column_set |-> ColumnSet,
        dbconn |-> dbconn, df |-> df ]

JoinInputs ==
  { JoinInput(pairs, variant, dbconn, df) :
      pairs \in UNION {[1..n -> JoinPairs] : n \in 0..MaxJoin},
      variant \in JoinVariants, dbconn \in BOOLEAN, df \in BOOLEAN }

JoinsUnchanged == UNCHANGED <<param, persisted, uuids, log, call, parser, query, explain, db, stats>>

JoinRaise(error) == joins' = [joins EXCEPT !.pc = "error", !.error = error]

\* _check_joins is called; feature_dict is the catalog of the model, passed
\* by the caller or fetched by _get_draft_features before the feature check
CallJoins ==
  /\ joins.pc = "idle"
  /\ LET feature_dict == _get_draft_features(Desc, NoneList, NoneList, "All")
     IN  \E input \in JoinInputs :
           joins' = [joins EXCEPT !.pc = "lengths", !.input = input,
                                  !.join_features = input.join_features,
                                  !.feature_dict = feature_dict]
  /\ JoinsUnchanged

\* the list lengths are compared and the optional lists get their defaults
CheckLengths ==
  /\ joins.pc = "lengths"
  /\ LET in == joins.input
         n == Len(in.join_features)
         join_columns == IF in.hasColumns THEN in.join_columns
                         ELSE [i \in 1..n |-> Str(in.join_features[i])]
         roleplay_features == IF in.hasRoleplay THEN in.roleplay_features
                              ELSE [i \in 1..n |-> ""]
     IN  IF in.hasColumns /\ n # Len(in.join_columns)
         THEN JoinRaise([NoJoinError EXCEPT !.rule = 1,
                           !.lengths = <<n, Len(in.join_columns)>>])
         ELSE IF in.hasRoleplay /\ n # Len(in.roleplay_features)
         THEN JoinRaise([NoJoinError EXCEPT !.rule = 1,
                           !.lengths = <<n, Len(in.roleplay_features)>>])
         ELSE joins' = [joins EXCEPT !.pc = "features",
                                     !.join_columns = join_columns,
                                     !.roleplay_features = roleplay_features]
  /\ JoinsUnchanged

\* the join features are looked up in the catalog and among the levels
CheckJoinFeatures ==
  /\ joins.pc = "features"
  /\ LET features_not_in_model == FeaturesNotInModel(joins.feature_dict, joins.join_features)
         non_level_features == NonLevelFeatures(joins.feature_dict, joins.join_features)
     IN  IF features_not_in_model # <<>> \/ non_level_features # <<>>
         THEN JoinRaise([NoJoinError EXCEPT !.rule = 2,
                           !.features_not_in_model = features_not_in_model,
                           !.non_level_features = non_level_features])
         ELSE joins' = [joins EXCEPT !.pc = "columns"]
  /\ JoinsUnchanged

\* every join column becomes a list and is looked up in the column set
CheckJoinColumns ==
  /\ joins.pc = "columns"
  /\ LET join_columns == AsLists(joins.join_columns)
         missing_join_columns == MissingJoinColumns(join_columns, joins.input.column_set)
     IN  IF missing_join_columns # <<>>
         THEN joins' = [joins EXCEPT !.pc = "error", !.join_columns = join_columns,
                          !.error = [NoJoinError EXCEPT !.rule = 3,
                                       !.missing_join_columns = missing_join_columns]]
         ELSE joins' = [joins EXCEPT !.pc = "keys", !.join_columns = join_columns, !.i = 1]
  /\ JoinsUnchanged

JoinEvent(kind, answer) == [kind |-> kind, feature |-> joins.i, answer |-> answer]

\* one round of the loop over the join features, up to the prompt, to the
\* key fetch or to the end of the round
CheckJoinKey ==
  /\ joins.pc = "keys"
  /\ joins.i <= Len(joins.join_features)
  /\ LET join_feature == joins.join_features[joins.i]
         join_column == joins.join_columns[joins.i]
     IN  IF KeyCountDiffers(join_feature, join_column)
         THEN JoinRaise([NoJoinError EXCEPT !.rule = 4,
                           !.join_feature = join_feature,
                           !.key_cols = KeyCols(join_feature),
                           !.join_column = join_column.cols])
         ELSE IF joins.input.dbconn /\ joins.input.df
         THEN IF NeedsMapping(join_feature, join_column)
              THEN IF NeedsPrompt(join_feature, join_column)
                   THEN joins' = [joins EXCEPT !.pc = "prompt"]
                   ELSE joins' = [joins EXCEPT !.pc = "fetch"]
              ELSE joins' = [joins EXCEPT !.i = @ + 1]
         ELSE IF Warns(join_feature, join_column)
         THEN joins' = [joins EXCEPT !.i = @ + 1,
                          !.events = Append(@, JoinEvent("warning", FALSE))]
         ELSE joins' = [joins EXCEPT !.i = @ + 1]
  /\ JoinsUnchanged

\* input_utils.prompt_yes_no: the operator answers
JoinPrompt ==
  /\ joins.pc = "prompt"
  /\ \E value \in BOOLEAN :
       joins' = [joins EXCEPT !.events = Append(@, JoinEvent("prompt", value)),
                              !.pc = IF value THEN "fetch" ELSE "keys",
                              !.i = IF value THEN @ ELSE @ + 1]
  /\ JoinsUnchanged

\* db_utils._get_key_cols: the warehouse returns the key values, or None;
\* the values are merged into df on the join column and the join column
\* becomes the key column
JoinFetch ==
  /\ joins.pc = "fetch"
  /\ \E found \in BOOLEAN :
       LET join_feature == joins.join_features[joins.i]
           join_column == joins.join_columns[joins.i]
           merge == [feature |-> joins.i, on |-> join_column.cols[1],
                     key |-> KeyCols(join_feature)[1],
                     renamed |-> join_column.cols[1] # ValueCol(join_feature)]
       IN  joins' = [joins EXCEPT
                       !.events = Append(@, JoinEvent("fetch", found)),
                       !.merged = IF found THEN Append(@, merge) ELSE @,
                       !.join_columns[joins.i] =
                          IF found THEN List(<<KeyCols(join_feature)[1]>>) ELSE @,
                       !.pc = "keys",
                       !.i = @ + 1]
  /\ JoinsUnchanged

\* return join_features, join_columns, roleplay_features, df
JoinReturn ==
  /\ joins.pc = "keys"
  /\ joins.i > Len(joins.join_features)
  /\ joins' = [joins EXCEPT !.pc = "returned"]
  /\ JoinsUnchanged

(* ---------------- _generate_atscale_query, step by step ---------------- *)
\* the feature lists of the requests: names of the published model, with
\* repeats, and a name it does not have
QueryNames == { <<"Year">>, <<"Item">>, <<"Sales">>, Nope }

FeatureListsOfQueries == UNION {[1..n -> QueryNames] : n \in 0..MaxFeatures}

FilterEntry(key, value) == [key |-> key, value |-> value]

\* the filter parameters of the requests
FilterChoices ==
  { NoFilters,
    [NoFilters EXCEPT !.filter_equals = <<FilterEntry(<<"Year">>, StrVal(<<"2020">>))>>],
    [NoFilters EXCEPT !.filter_equals = <<FilterEntry(<<"Year">>, StrVal(<<"Item">>)),
                                          FilterEntry(<<"Item">>, NumVal("5"))>>,
                      !.filter_greater = <<FilterEntry(<<"Sales">>, NumVal("5"))>>],
    [NoFilters EXCEPT !.filter_less = <<FilterEntry(<<"Sales">>, NumVal("10"))>>,
                      !.filter_greater_or_equal = <<FilterEntry(<<"Sales">>, BoolVal("True"))>>,
                      !.filter_less_or_equal = <<FilterEntry(<<"Sales">>, StrVal(<<"x">>))>>,
                      !.filter_not_equal = <<FilterEntry(<<"Year">>, StrVal(<<"Item">>))>>],
    [NoFilters EXCEPT !.filter_like = <<FilterEntry(<<"Item">>, StrVal(<<"Year">>))>>,
                      !.filter_rlike = <<FilterEntry(<<"Item">>, StrVal(<<"a.*">>))>>],
    [NoFilters EXCEPT !.filter_in = <<FilterEntry(<<"Year">>, <<NumVal("1"), StrVal(<<"x">>)>>)>>],
    [NoFilters EXCEPT !.filter_in = <<FilterEntry(<<"Year">>, <<StrVal(<<"Item">>), NumVal("2")>>)>>],
    [NoFilters EXCEPT !.filter_in = <<FilterEntry(<<"Year">>, <<NumVal("1"), NumVal("2")>>)>>],
    [NoFilters EXCEPT !.filter_between =
                        <<FilterEntry(<<"Year">>, <<NumVal("1"), StrVal(<<"Item">>)>>),
                          FilterEntry(<<"Sales">>, <<StrVal(<<"a">>), BoolVal("False")>>)>>],
    [NoFilters EXCEPT !.filter_null = <<[key |-> <<"Year">>]>>,
                      !.filter_not_null = <<[key |-> <<"Item">>]>>],
    [NoFilters EXCEPT !.filter_equals = <<FilterEntry(<<"Gone">>, StrVal(<<"x">>))>>],
    [NoFilters EXCEPT !.filter_greater = <<FilterEntry(Nope, NumVal("1"))>>,
                      !.filter_not_null = <<[key |-> <<"Gone">>]>>] }

OrderItem(name, dir) == [tuple |-> TRUE, name |-> name, dir |-> dir]

\* the order_by parameters of the requests: none, a feature, a feature the
\* model does not have, an ordering that is neither ASC nor DESC, and an
\* item that is not a tuple
OrderChoices ==
  { <<>>,
    <<OrderItem(<<"Sales">>, "desc")>>,
    <<OrderItem(<<"Gone">>, "ASC")>>,
    <<OrderItem(<<"Year">>, "up"), [tuple |-> FALSE, name |-> <<"Item">>, dir |-> ""]>> }

\* limit, comment, use_aggs and gen_aggs at their defaults, a limit alone,
\* or all set
OptionChoices ==
  { NoQueryInput,
    [NoQueryInput EXCEPT !.hasLimit = TRUE, !.limit = "10"],
    [NoQueryInput EXCEPT !.hasLimit = TRUE, !.limit = "10", !.hasComment = TRUE,
                         !.comment = "note", !.use_aggs = FALSE, !.gen_aggs = FALSE,
                         !.raise_multikey_warning = FALSE] }

QueryInputs ==
  { [options EXCEPT !.feature_list = feature_list, !.filters = filters,
                    !.order_by = order_by] :
      options \in OptionChoices, feature_list \in FeatureListsOfQueries,
      filters \in FilterChoices, order_by \in OrderChoices }

QueryUnchanged == UNCHANGED <<param, persisted, uuids, log, call, parser, joins, explain, db, stats>>

QueryRaise(place, items) ==
  query' = [query EXCEPT !.pc = "error", !.error = [place |-> place, items |-> items]]

\* _generate_atscale_query is called on a data model with a published catalog
CallQuery ==
  /\ query.pc = "idle"
  /\ LET all_features == _get_draft_features(Desc, NoneList, NoneList, "All")
     IN  \E input \in QueryInputs :
           query' = [query EXCEPT !.pc = "order_by", !.input = input,
                                  !.feature_list = input.feature_list,
                                  !.all_features = all_features]
  /\ QueryUnchanged

\* the order_by items are split into ordering strings and features
CheckOrderBy ==
  /\ query.pc = "order_by"
  /\ LET error_items == OrderItems(query.input.order_by, FALSE)
     IN  IF error_items # <<>>
         THEN QueryRaise("order_by", error_items)
         ELSE query' = [query EXCEPT
                          !.pc = "feature_list",
                          !.ordering_strings = OrderingStrings(query.input.order_by),
                          !.ordering_features = OrderingFeatures(query.input.order_by)]
  /\ QueryUnchanged

\* the feature list is checked against the catalog
CheckFeatureList ==
  /\ query.pc = "feature_list"
  /\ LET unknown == UnknownNames(query.feature_list, NamesOf(query.all_features))
     IN  IF unknown # <<>>
         THEN QueryRaise("feature_list", unknown)
         ELSE query' = [query EXCEPT !.pc = "dedupe"]
  /\ QueryUnchanged

\* repeats are dropped from the feature list and compound keys are warned of
DedupeFeatures ==
  /\ query.pc = "dedupe"
  /\ LET feature_list == Deduped(query.feature_list, {})
         categoricals == _get_draft_features(Desc, SomeList(Range(feature_list)),
                                             NoneList, "Categorical")
     IN  query' = [query EXCEPT
                     !.pc = "filters",
                     !.feature_list = feature_list,
                     !.repeats = Repeats(query.feature_list, {}),
                     !.compound = IF query.input.raise_multikey_warning
                                  THEN CompoundKeyFeatures(categoricals) ELSE {}]
  /\ QueryUnchanged

\* the first of the filter parameters and ordering features with a name
\* the catalog does not have (0: none)
FirstUnknown(f, ordering_features, list_all) ==
  MinOf({i \in 1..(Len(ListParams) + 1) :
           UnknownNames(IF i <= Len(ListParams) THEN KeysOf(f[ListParams[i]])
                        ELSE ordering_features, list_all) # <<>>})

\* the filter parameters and the ordering features are checked one by one
CheckFilters ==
  /\ query.pc = "filters"
  /\ LET list_all == NamesOf(query.all_features)
         f == query.input.filters
         i == FirstUnknown(f, query.ordering_features, list_all)
     IN  IF i = 0 THEN query' = [query EXCEPT !.pc = "compile"]
         ELSE IF i <= Len(ListParams)
         THEN QueryRaise(ListParams[i], UnknownNames(KeysOf(f[ListParams[i]]), list_all))
         ELSE QueryRaise("order_by", UnknownNames(query.ordering_features, list_all))
  /\ QueryUnchanged

\* the clauses are rendered and the query is returned
CompileQuery ==
  /\ query.pc = "compile"
  /\ LET list_all == NamesOf(query.all_features)
         order_string == OrderString(query.ordering_strings, query.feature_list,
                                     query.all_features)
         filter_string == FilterString(query.input.filters, list_all)
     IN  query' = [query EXCEPT
                     !.pc = "returned",
                     !.predicates = Predicates(query.input.filters, list_all),
                     !.order_string = order_string,
                     !.filter_string = filter_string,
                     !.query = QueryString(query.input, query.feature_list,
                                           filter_string, order_string)]
  /\ QueryUnchanged

(* ------------------- _generate_db_query, step by step ------------------- *)
\* the queries submitted: one without a comment and one with two
ExplainQueries ==
  { [text |-> "q", comment_match |-> <<>>],
    [text |-> "q", comment_match |-> <<"/* a */", "/* b */">>] }

\* the entries the log can hold for a submitted query: another query, the
\* query failed (flag false or absent), succeeded without a subquery event,
\* and succeeded with a subquery whose text is whole or truncated
LogEntries ==
  { LogEntry("other", TRUE, TRUE, "", <<TimelineEvent("SubqueriesWall", FALSE, <<"sql0">>, "s0")>>, "id0"),
    LogEntry("q", TRUE, FALSE, "failure 1", <<>>, "id1"),
    LogEntry("q", FALSE, FALSE, "failure 2", <<>>, "id2"),
    LogEntry("q", TRUE, TRUE, "", <<TimelineEvent("Planning", FALSE, <<>>, "s3")>>, "id3"),
    LogEntry("q", TRUE, TRUE, "", <<TimelineEvent("Planning", FALSE, <<>>, "s4"),
                                     TimelineEvent("SubqueriesWall", FALSE, <<"sql4">>, "s4")>>, "id4"),
    LogEntry("q", TRUE, TRUE, "", <<TimelineEvent("SubqueriesWall", TRUE, <<"sql5...">>, "s5"),
                                     TimelineEvent("SubqueriesWall", FALSE, <<"sql6">>, "s6")>>, "id5") }

QueryLogs == UNION {[1..n -> LogEntries] : n \in 0..MaxLog}

ExplainUnchanged == UNCHANGED <<param, persisted, uuids, log, call, parser, joins, query, db, stats>>

\* the query is posted and the query log of the last minutes is fetched
CallExplain ==
  /\ explain.pc = "idle"
  /\ \E atscale_query \in ExplainQueries, data \in QueryLogs :
       explain' = [explain EXCEPT !.pc = "loop", !.atscale_query = atscale_query,
                                  !.data = data]
  /\ ExplainUnchanged

\* one round of the loop over the log entries
InspectEntry ==
  /\ explain.pc = "loop"
  /\ explain.i <= Len(explain.data)
  /\ explain.db_query = <<>>
  /\ LET query_info == explain.data[explain.i]
         wall == FirstWall(query_info.timeline_events)
     IN  IF query_info.query_text # explain.atscale_query.text
         THEN explain' = [explain EXCEPT !.i = @ + 1]
         ELSE IF Failed(query_info)
         THEN explain' = [explain EXCEPT !.pc = "error",
                                         !.error = query_info.failure_message]
         ELSE IF wall = 0
         THEN explain' = [explain EXCEPT !.i = @ + 1]
         ELSE LET event == query_info.timeline_events[wall]
              IN  explain' =
                    [explain EXCEPT
                       !.i = @ + 1,
                       !.fetched = IF event.children[1].query_text_truncated
                                   THEN Append(@, <<query_info.query_id,
                                                    event.children[1].query_id>>)
                                   ELSE @,
                       !.db_query = WithComments(explain.atscale_query.comment_match,
                                                 SubqueryText(query_info, event))]
  /\ ExplainUnchanged

\* the loop is left at the end of the log or once a warehouse query is found
ReturnDbQuery ==
  /\ explain.pc = "loop"
  /\ explain.i > Len(explain.data) \/ explain.db_query # <<>>
  /\ explain' = [explain EXCEPT !.pc = "returned", !.result = explain.db_query]
  /\ ExplainUnchanged

(* -------------------------- Iris, step by step -------------------------- *)
\* the statements of the lists: two the warehouse executes and one it rejects
Statements ==
  { [text |-> "s1", fails |-> FALSE], [text |-> "s2", fails |-> FALSE],
    [text |-> "bad", fails |-> TRUE] }

StatementLists == UNION {[1..n -> Statements] : n \in 0..MaxStatements}

DbUnchanged == UNCHANGED <<param, persisted, uuids, log, call, parser, joins, query, explain, stats>>

\* execute_statements is called; the connection string is read from an
\* attribute that the class does not set, so that the call raises
\* AttributeError unless the attribute was set on the instance
CallExecuteStatements ==
  /\ db.pc = "idle"
  /\ \E statement_list \in StatementLists, has_connection_string \in BOOLEAN :
       db' = IF has_connection_string
             THEN [db EXCEPT !.pc = "statements", !.statement_list = statement_list]
             ELSE [db EXCEPT !.pc = "error", !.statement_list = statement_list,
                             !.error = "AttributeError"]
  /\ DbUnchanged

\* cursor.execute(statement); an exception leaves the with blocks, which
\* rolls the open transaction back
ExecuteStatement ==
  /\ db.pc = "statements"
  /\ db.i <= Len(db.statement_list)
  /\ LET statement == db.statement_list[db.i]
     IN  db' = IF statement.fails
               THEN [db EXCEPT !.pc = "error", !.error = "statement", !.pending = <<>>]
               ELSE [db EXCEPT !.pc = "commit", !.pending = Append(@, statement.text)]
  /\ DbUnchanged

\* connection.commit() after the statement
CommitStatement ==
  /\ db.pc = "commit"
  /\ db' = [db EXCEPT !.pc = "statements", !.i = @ + 1,
                      !.committed = @ \o db.pending, !.pending = <<>>]
  /\ DbUnchanged

\* the end of the statement list: the with blocks are left
CloseStatements ==
  /\ db.pc = "statements"
  /\ db.i > Len(db.statement_list)
  /\ db' = [db EXCEPT !.pc = "done", !.committed = @ \o db.pending, !.pending = <<>>]
  /\ DbUnchanged

\* the columns of the dataframes written
Columns == <<"a", "b">>

\* the rows of the dataframes written
Rows == { <<"x", "1">>, <<"y", "2">> }

Dataframes == UNION {[1..n -> Rows] : n \in 0..MaxRows}

WriteInputs ==
  { [dataframe |-> dataframe, chunksize |-> chunksize, if_exists |-> if_exists,
     tables |-> tables] :
      dataframe \in Dataframes, chunksize \in 1..MaxChunk,
      if_exists \in {"FAIL", "REPLACE", "APPEND"},
      tables \in {"none", "table", "view", "many"} }

\* write_df_to_db up to the loop over the chunks: the table is looked up,
\* dropped and created as if_exists asks, and the dataframe is cut in chunks
CallWrite ==
  /\ db.pc = "idle"
  /\ \E input \in WriteInputs :
       LET exists == input.tables = "table"
           create == <<CreateTable("t", Columns)>>
       IN  IF input.tables \in {"many", "view"}
           THEN db' = [db EXCEPT !.pc = "error", !.input = input, !.error = "ValueError"]
           ELSE IF exists /\ input.if_exists = "FAIL"
           THEN db' = [db EXCEPT !.pc = "error", !.input = input, !.error = "Exception"]
           ELSE IF input.dataframe = <<>>
           THEN db' = [db EXCEPT !.pc = "error", !.input = input, !.error = "IndexError"]
           ELSE db' = [db EXCEPT
                         !.pc = "chunks", !.input = input,
                         !.executed = IF exists /\ input.if_exists = "REPLACE"
                                      THEN <<DropTable("t")>> \o create
                                      ELSE IF ~exists THEN create ELSE <<>>,
                         !.operation = InsertOperation("t", Columns),
                         !.list_df = ListDf(input.dataframe, input.chunksize)]
  /\ DbUnchanged

\* cursor.execute(op_copy) for the next chunk
WriteChunk ==
  /\ db.pc = "chunks"
  /\ db.i <= Len(db.list_df)
  /\ db' = [db EXCEPT !.i = @ + 1,
                      !.executed = Append(@, InsertStatement(db.operation, db.list_df[db.i]))]
  /\ DbUnchanged

\* the cursor and the connection are closed
CloseWrite ==
  /\ db.pc = "chunks"
  /\ db.i > Len(db.list_df)
  /\ db' = [db EXCEPT !.pc = "closed"]
  /\ DbUnchanged

(* ------------------------ eda.stats, step by step ----------------------- *)
StatsInputs ==
  [ fn : {"variance", "std"}, feature : {"Sales", "Weight", "Broken"},
    granularity_levels : { <<"Year">>, <<"Year", "Item">> }, sample : BOOLEAN,
    if_exists : {"FAIL", "REPLACE"}, write_database : {"", "w"},
    checks_pass : BOOLEAN ]

\* write_database, by default the database of the connection
WriteDatabase(input) ==
  IF input.write_database = "" THEN "_database" ELSE input.write_database

StatsUnchanged == UNCHANGED <<param, persisted, uuids, log, call, parser, joins, query, explain, db>>

\* variance or std is called: the inputs are checked and the method of the
\* connection is called
CallStats ==
  /\ stats.pc = "idle"
  /\ \E input \in StatsInputs :
       stats' = IF ~input.checks_pass
                THEN [stats EXCEPT !.pc = "error", !.input = input, !.error = "checks"]
                ELSE IF input.fn = "std"
                THEN [stats EXCEPT !.pc = "_warehouse_std", !.input = input,
                                   !.write_database = WriteDatabase(input)]
                ELSE [stats EXCEPT !.pc = "_warehouse_variance", !.input = input,
                                   !.write_database = WriteDatabase(input),
                                   !.keywords = VarianceKeywords]
  /\ StatsUnchanged

\* _warehouse_std calls _warehouse_variance
WarehouseStd ==
  /\ stats.pc = "_warehouse_std"
  /\ stats' = IF Binds(WarehouseVarianceParams, StdKeywords)
              THEN [stats EXCEPT !.pc = "_warehouse_variance", !.keywords = StdKeywords]
              ELSE [stats EXCEPT !.pc = "error", !.keywords = StdKeywords,
                                 !.error = "TypeError"]
  /\ StatsUnchanged

\* _warehouse_variance runs the statistics query
WarehouseVariance ==
  /\ stats.pc = "_warehouse_variance"
  /\ LET outcome == WarehouseVar(stats.input.feature, stats.input.granularity_levels,
                                 stats.input.sample)
     IN  stats' = IF outcome.failed
                  THEN [stats EXCEPT !.pc = "error", !.error = "warehouse"]
                  ELSE [stats EXCEPT !.pc = "var", !.var = outcome.var]
  /\ StatsUnchanged

\* the variance, or its square root for std, is returned
ReturnStats ==
  /\ stats.pc = "var"
  /\ stats' = [stats EXCEPT !.pc = "returned",
                            !.result = IF stats.input.fn = "std" THEN Sqrt(stats.var)
                                       ELSE stats.var]
  /\ StatsUnchanged

(* --------------------------- specifications ---------------------------- *)
InitCommon ==
  /\ uuids = 0
  /\ log = <<>>
  /\ call = [c \in Callers |-> IdleCall]
  /\ parser = IdleParser
  /\ joins = IdleJoins
  /\ query = IdleQuery
  /\ explain = IdleExplain
  /\ db = IdleDb
  /\ stats = IdleStats

\* one caller builds a perspective for any hide lists; the descriptors are
\* those whose Day key is roleplayed and whose Month key is not
OverlayParams == {p \in DescParams : p.month = {} /\ ~p.rev /\ ~p.hidden}

InitOverlay ==
  /\ param \in OverlayParams
  /\ persisted = <<>>
  /\ InitCommon

CallOverlay ==
  /\ Idle(1)
  /\ call[1].ncalls < MaxCalls
  /\ \E n \in 0..MaxReq : \E lists \in HideLists(Desc, n) :
       Call(1, Request("P1", FALSE, lists))

NextOverlay == CallOverlay \/ Steps(1)

SpecOverlay == InitOverlay /\ [][NextOverlay]_vars

\* several callers work on one project
ConcurrentParam == [day |-> {2}, month |-> {}, rev |-> FALSE, hidden |-> FALSE]

NoLists ==
  [ dimensions |-> <<>>, hierarchies |-> <<>>, categorical_features |-> <<>>,
    numeric_features |-> <<>> ]

\* the requests of the callers: a create or an update of P1 or of P2 that
\* hides the dimension Prod
ConcurrentRequests ==
  {Request(name, update, [NoLists EXCEPT !.dimensions = << <<"Prod">> >>]) :
     name \in {"P1", "P2"}, update \in BOOLEAN}

Init ==
  /\ param = ConcurrentParam
  /\ persisted \in {<<>>, <<OldPerspective>>}
  /\ InitCommon

CallAny(c) ==
  /\ Idle(c)
  /\ call[c].ncalls < MaxCalls
  /\ \E r \in ConcurrentRequests : Call(c, r)

Next == \E c \in Callers : CallAny(c) \/ Steps(c)

Spec == Init /\ [][Next]_vars

\* the callers serialize their calls: a call starts when no other is running
CallSerial(c) ==
  /\ \A d \in Callers \ {c} : Idle(d)
  /\ CallAny(c)

NextSerial == \E c \in Callers : CallSerial(c) \/ Steps(c)

SpecSerial == Init /\ [][NextSerial]_vars

\* the catalog of any descriptor
InitCatalog ==
  /\ param \in DescParams
  /\ persisted = <<>>
  /\ InitCommon

NextCatalog ==
  ParseSeed \/ ParsePass \/ ParseMetrical \/ ParseEmit \/ ParseReturn \/ GetDraft

SpecCatalog == InitCatalog /\ [][NextCatalog]_vars

\* join validation against the catalog of a project whose Day key is
\* roleplayed as Order Day, and of one without roleplay
JoinParams ==
  { [day |-> {2}, month |-> {}, rev |-> FALSE, hidden |-> FALSE],
    [day |-> {}, month |-> {}, rev |-> FALSE, hidden |-> FALSE] }

InitJoins ==
  /\ param \in JoinParams
  /\ persisted = <<>>
  /\ InitCommon

NextJoins ==
  \/ CallJoins \/ CheckLengths \/ CheckJoinFeatures \/ CheckJoinColumns
  \/ CheckJoinKey \/ JoinPrompt \/ JoinFetch \/ JoinReturn

SpecJoins == InitJoins /\ [][NextJoins]_vars

\* queries against the published catalog of a project without roleplay
QueryParam == [day |-> {}, month |-> {}, rev |-> FALSE, hidden |-> FALSE]

InitQuery ==
  /\ param = QueryParam
  /\ persisted = <<>>
  /\ InitCommon

NextQuery ==
  \/ CallQuery \/ CheckOrderBy \/ CheckFeatureList \/ DedupeFeatures
  \/ CheckFilters \/ CompileQuery

SpecQuery == InitQuery /\ [][NextQuery]_vars

\* a query is explained against any query log
InitExplain ==
  /\ param = QueryParam
  /\ persisted = <<>>
  /\ InitCommon

NextExplain == CallExplain \/ InspectEntry \/ ReturnDbQuery

SpecExplain == InitExplain /\ [][NextExplain]_vars

\* calls on an Iris connection
InitIris ==
  /\ param = QueryParam
  /\ persisted = <<>>
  /\ InitCommon

NextIris ==
  \/ CallExecuteStatements \/ ExecuteStatement \/ CommitStatement \/ CloseStatements
  \/ CallWrite \/ WriteChunk \/ CloseWrite

SpecIris == InitIris /\ [][NextIris]_vars

\* statistics of a feature are asked of a connection
InitStats ==
  /\ param = QueryParam
  /\ persisted = <<>>
  /\ InitCommon

NextStats == CallStats \/ WarehouseStd \/ WarehouseVariance \/ ReturnStats

SpecStats == InitStats /\ [][NextStats]_vars

\* the descriptors with a snowflake: the Month key has any roles, the Item
\* key may be roleplayed
SnowParams ==
  [ day : {{}}, month : RoleChoices, rev : {FALSE}, hidden : BOOLEAN,
    snow : {"chain", "cycle"}, item : BOOLEAN ]

\* the categorical features of a descriptor are parsed: of any snowflaked
\* one, and of those without snowflake whose Month key has any roles
InitRoleplay ==
  /\ param \in SnowParams \cup {p \in DescParams : p.day = {} /\ ~p.rev}
  /\ persisted = <<>>
  /\ InitCommon

NextRoleplay == ParseSeed \/ ParsePass \/ ParseMetrical \/ ParseEmit \/ ParseReturn

\* the parser is one thread of control: in the loop, the next pass is run
SpecRoleplay == InitRoleplay /\ [][NextRoleplay]_vars /\ WF_vars(ParsePass)

(* ------------------------------ catalog properties --------------------- *)
\* the primary attributes of the levels of the project dimensions
LevelAttributes(desc) ==
  {LevelsOf(desc.dims)[i].primary : i \in 1..Len(LevelsOf(desc.dims))}

\* the naming templates of the roleplay references of an attribute's key
TemplatesOf(desc, attr_id) ==
  {desc.keyrefs[i].naming :
     i \in {j \in 1..Len(desc.keyrefs) :
              /\ desc.keyrefs[j].id = RefIds(desc)[attr_id].keyref
              /\ desc.keyrefs[j].complete = "false"}}

\* the hierarchies that hold a level
HierarchiesWith(desc, attr_id) ==
  {h \in {HierarchiesOf(desc.dims)[k].hierarchy : k \in 1..Len(HierarchiesOf(desc.dims))} :
     \E i \in 1..Len(h.level) : h.level[i].primary = attr_id}

\* the templates of the level and of the levels below it in one hierarchy,
\* the identity template when there are none
TemplatesIn(desc, h, attr_id) ==
  LET below == {h.level[j].primary :
                  j \in {m \in 1..Len(h.level) :
                           \E i \in 1..m : h.level[i].primary = attr_id}}
      T == UNION {TemplatesOf(desc, b) : b \in below}
  IN  IF T = {} THEN {<<PH>>} ELSE T

TemplatesApplied(desc, attr_id) ==
  UNION {TemplatesIn(desc, h, attr_id) : h \in HierarchiesWith(desc, attr_id)}

\* the positions of the entries of a catalog with a given base_name
EntriesWithBase(catalog, base) ==
  {i \in 1..Len(catalog) : catalog[i].hasBase /\ catalog[i].base_name = base}

DistinctNames(catalog, I) ==
  \A i, j \in I : catalog[i].name = catalog[j].name => i = j

\* C9 as stated: a level with N >= 1 roleplay references has exactly N
\* entries with its base_name, with pairwise distinct names, wherever the
\* level sits and whatever roleplays the levels below it carry.
C9_ExactlyN ==
  parser.pc = "returned" =>
    \A a \in LevelAttributes(Desc) :
      LET I == EntriesWithBase(parser.return_dict, RefIds(Desc)[a].name)
      IN  TemplatesOf(Desc, a) # {} =>
            /\ Cardinality(I) = Cardinality(TemplatesOf(Desc, a))
            /\ DistinctNames(parser.return_dict, I)

\* C9, amended: the entries with a level's base_name are one per distinct
\* naming template applied to it in a hierarchy that holds it (the templates
\* of the roleplay references of the level and of the levels below it in
\* that hierarchy, the identity template when there are none), with pairwise
\* distinct names; they are exactly N, for N >= 1, when these are the
\* level's own templates.
C9_OnePerTemplateApplied ==
  parser.pc = "returned" =>
    \A a \in LevelAttributes(Desc) :
      LET I == EntriesWithBase(parser.return_dict, RefIds(Desc)[a].name)
          T == TemplatesApplied(Desc, a)
      IN  /\ Cardinality(I) = Cardinality(T)
          /\ DistinctNames(parser.return_dict, I)
          /\ {parser.return_dict[i].name : i \in I} =
               {Replace(t, RefIds(Desc)[a].name) : t \in T}
          /\ T = TemplatesOf(Desc, a) =>
               Cardinality(I) = Cardinality(TemplatesOf(Desc, a))

\* a level with two roleplay references of its own under a level with none
\* of its own and above a level with one: the catalog is returned
C9_Witness ==
  /\ parser.pc = "returned"
  /\ Cardinality(TemplatesOf(Desc, "aMonth")) = 2
  /\ Cardinality(TemplatesOf(Desc, "aDay")) = 1
  /\ TemplatesOf(Desc, "aDay") \subseteq TemplatesOf(Desc, "aMonth")
  /\ Cardinality(EntriesWithBase(parser.return_dict, <<"Month">>)) = 2
  /\ Cardinality(EntriesWithBase(parser.return_dict, <<"Year">>)) = 2

CategoricalEntries(catalog) ==
  {i \in 1..Len(catalog) : catalog[i].feature_type = "Categorical"}

\* C10 as stated: the base_name of every categorical entry is a key of the
\* catalog and the entry under that key is primary (its name is its
\* base_name).  An entry without the base_name key counts as its own base.
C10_BaseNameIsPrimaryKey ==
  parser.pc = "drafted" =>
    \A i \in CategoricalEntries(parser.catalog) :
      \E j \in 1..Len(parser.catalog) :
        /\ parser.catalog[j].name = BaseNameOf(parser.catalog[i])
        /\ BaseNameOf(parser.catalog[j]) = parser.catalog[j].name

\* C10, amended: every categorical entry that carries a base_name is named
\* by its roleplay_expression applied to the base_name, and when the
\* base_name is a key of the catalog the entry under it is primary, with the
\* identity template.
C10_NamedFromBase ==
  parser.pc = "drafted" =>
    \A i \in CategoricalEntries(parser.catalog) :
      LET e == parser.catalog[i]
      IN  /\ e.hasBase => e.name = Replace(e.roleplay_expression, e.base_name)
          /\ \A j \in 1..Len(parser.catalog) :
               parser.catalog[j].name = BaseNameOf(e) =>
                 /\ BaseNameOf(parser.catalog[j]) = parser.catalog[j].name
                 /\ parser.catalog[j].hasBase =>
                      parser.catalog[j].roleplay_expression = <<PH>>

\* a catalog with a roleplayed entry whose base_name is a key and one whose
\* base_name is not
C10_Witness ==
  /\ parser.pc = "drafted"
  /\ \E i, k \in CategoricalEntries(parser.catalog) :
       /\ parser.catalog[i].hasBase
       /\ parser.catalog[i].name # parser.catalog[i].base_name
       /\ parser.catalog[i].base_name \in NamesOf(parser.catalog)
       /\ parser.catalog[k].hasBase
       /\ parser.catalog[k].base_name \notin NamesOf(parser.catalog)

(* ------------------------------ overlay properties --------------------- *)
\* the overlay of a call is complete
Built(c) == call[c].pc \in {"categorical_hidden", "patched", "updated", "done"}

NoRepeats(s) == \A i, j \in 1..Len(s) : s[i] = s[j] => i = j

Occurrences(s, x) == Cardinality({i \in 1..Len(s) : s[i] = x})

\* the catalog entry of a requested feature
InfoOf(c, feature) ==
  call[c].categorical_feature_info[IndexOf(call[c].categorical_feature_info, feature)]

\* the dimensions, by their possibly roleplayed names, a hierarchy name belongs to
OwnDimensions(catalog, hierarchy) ==
  {catalog[i].dimension :
     i \in {j \in 1..Len(catalog) :
              /\ ~catalog[j].secondary_attribute
              /\ hierarchy \in Range(catalog[j].hierarchy)}}

\* the id of the project hierarchy behind a possibly roleplayed hierarchy name
HierarchyId(desc, catalog, hierarchy) ==
  LET dhs == HierarchiesOf(AllDimensions(desc))
      base == HierarchyRoleplays(catalog)[hierarchy].base_hierarchy
  IN  dhs[MinOf({i \in 1..Len(dhs) : dhs[i].hierarchy.name = base})].hierarchy.id

\* the id of the project dimension behind a possibly roleplayed dimension name
DimensionId(desc, catalog, dimension) ==
  LET base == DimensionRoleplays(catalog)[dimension].base_dimension
  IN  AllDimensions(desc)[NameIndex(AllDimensions(desc), base)].id

\* the id of the keyed attribute behind a catalog entry
AttributeId(desc, info) ==
  LET attributes == desc.keyed \o desc.cubeKeyed
  IN  attributes[NameIndex(attributes, BaseNameOf(info))].id

\* the overlay nodes for a dimension name: its id and its roleplay
NodesOf(desc, catalog, nodes, dimension) ==
  LET dr == DimensionRoleplays(catalog)[dimension]
      roleplayed == dimension # dr.base_dimension
  IN  {k \in 1..Len(nodes) :
         /\ nodes[k].id = DimensionId(desc, catalog, dimension)
         /\ nodes[k].hasRefPath = roleplayed
         /\ roleplayed => nodes[k].ref_id = dr.ref_id}

\* the flat-hierarchy-ref entries of an overlay with a given hierarchy id
HierarchyRefs(nodes, hierarchy_id) ==
  UNION {{<<k, j>> : j \in {m \in 1..Len(nodes[k].hrefs) :
                              nodes[k].hrefs[m].id = hierarchy_id}} :
           k \in 1..Len(nodes)}

\* C1: when a dimension D is in `dimensions` and a hierarchy H of D is in
\* `hierarchies`, the overlay holds exactly one node for D, with visible
\* False, and that node carries no flat-hierarchy-ref entry for H.  Stated
\* for hide lists that name nothing twice.
C1_HiddenDimensionKeepsNoHierarchy ==
  \A c \in Callers :
    (Built(c) /\ NoRepeats(call[c].req.dimensions) /\ NoRepeats(call[c].req.hierarchies)) =>
      LET catalog == call[c].categorical_feature_info
          nodes == call[c].ov.dims
      IN  \A D \in Range(call[c].req.dimensions) :
            \A H \in Range(call[c].req.hierarchies) :
              D \in OwnDimensions(catalog, H) =>
                /\ Cardinality(NodesOf(Desc, catalog, nodes, D)) = 1
                /\ \A k \in NodesOf(Desc, catalog, nodes, D) :
                     /\ ~nodes[k].visible
                     /\ \A j \in 1..Len(nodes[k].hrefs) :
                          nodes[k].hrefs[j].id # HierarchyId(Desc, catalog, H)

\* C2: for every requested level whose dimension is not in `dimensions` and
\* which has a hierarchy that is not in `hierarchies`, the overlay holds,
\* under the node of such a hierarchy, a flat-level-ref entry with the
\* level's attribute id and visible False, also when the overlay already has
\* a node for the dimension made for another hierarchy.
C2_LevelHiddenUnderHierarchy ==
  \A c \in Callers :
    Built(c) =>
      LET catalog == call[c].categorical_feature_info
          nodes == call[c].ov.dims
      IN  \A F \in Range(call[c].req.categorical_features) :
            LET info == InfoOf(c, F)
                open == Range(info.hierarchy) \ Range(call[c].req.hierarchies)
            IN  (/\ ~info.secondary_attribute
                 /\ info.dimension \notin Range(call[c].req.dimensions)
                 /\ open # {}) =>
                  \E H \in open :
                    \E kj \in HierarchyRefs(nodes, HierarchyId(Desc, catalog, H)) :
                      /\ nodes[kj[1]].id = DimensionId(Desc, catalog, info.dimension)
                      /\ [primary |-> AttributeId(Desc, info), visible |-> FALSE]
                           \in Range(nodes[kj[1]].hrefs[kj[2]].lrefs)

\* C3: for every hierarchy H in `hierarchies` whose own, possibly roleplayed,
\* dimension is not in `dimensions`, the overlay holds a flat-hierarchy-ref
\* entry with the id of H's base hierarchy and visible False, also when the
\* base dimension or another roleplay of it is in `dimensions`.
C3_HierarchyHiddenUnlessOwnDimension ==
  \A c \in Callers :
    Built(c) =>
      LET catalog == call[c].categorical_feature_info
          nodes == call[c].ov.dims
      IN  \A H \in Range(call[c].req.hierarchies) :
            OwnDimensions(catalog, H) \cap Range(call[c].req.dimensions) = {} =>
              \E kj \in HierarchyRefs(nodes, HierarchyId(Desc, catalog, H)) :
                ~nodes[kj[1]].hrefs[kj[2]].visible

\* C4: whatever the hide lists, names given twice included, the overlay has
\* no two flat-dimension-ref nodes with the same dimension id and the same
\* roleplay ref-path, and no node has two flat-hierarchy-ref entries with
\* the same hierarchy id.
C4_NoDuplicateNodes ==
  \A c \in Callers :
    Built(c) =>
      LET nodes == call[c].ov.dims
      IN  /\ \A k1, k2 \in 1..Len(nodes) :
               (/\ nodes[k1].id = nodes[k2].id
                /\ nodes[k1].hasRefPath = nodes[k2].hasRefPath
                /\ nodes[k1].ref_id = nodes[k2].ref_id) => k1 = k2
          /\ \A k \in 1..Len(nodes) :
               \A j1, j2 \in 1..Len(nodes[k].hrefs) :
                 nodes[k].hrefs[j1].id = nodes[k].hrefs[j2].id => j1 = j2

\* C5: hiding a secondary attribute adds exactly one flat-attribute-ref entry
\* for it: its attribute id, visible False, and its roleplay ref id when the
\* feature is roleplayed; no level entry is added for it, and no dimension
\* node when nothing else is requested.  Stated for an attribute requested
\* once whose dimension is not in `dimensions`.
C5_SecondaryOneFlatAttribute ==
  \A c \in Callers :
    Built(c) =>
      LET nodes == call[c].ov.dims
          flat == call[c].ov.flat_attributes
      IN  \A F \in Range(call[c].req.categorical_features) :
            LET info == InfoOf(c, F)
                roleplayed == F # BaseNameOf(info)
                entry == [id |-> AttributeId(Desc, info), visible |-> FALSE,
                          hasRef |-> roleplayed,
                          ref_id |-> IF roleplayed THEN info.roleplay_ref_id ELSE ""]
            IN  (/\ info.secondary_attribute
                 /\ Occurrences(call[c].req.categorical_features, F) = 1
                 /\ info.dimension \notin Range(call[c].req.dimensions)) =>
                  /\ Cardinality({i \in 1..Len(flat) : flat[i].id = entry.id}) = 1
                  /\ entry \in Range(flat)
                  /\ \A k \in 1..Len(nodes) : \A j \in 1..Len(nodes[k].hrefs) :
                       \A l \in 1..Len(nodes[k].hrefs[j].lrefs) :
                         nodes[k].hrefs[j].lrefs[l].primary # entry.id
                  /\ Len(call[c].req.categorical_features) = 1
                       /\ call[c].req.dimensions = <<>> /\ call[c].req.hierarchies = <<>>
                       => nodes = <<>>

(* ------------------------- perspective list properties ------------------ *)
IdsOf(perspectives) == {perspectives[i].id : i \in 1..Len(perspectives)}

\* the name check of a call fails on the descriptor the call has fetched
NameCheckFails(c) ==
  IF call[c].req.update
  THEN NameIndex(call[c].project_dict, call[c].req.name) = 0
  ELSE NameIndex(call[c].project_dict, call[c].req.name) # 0

\* the call is past its name check and has not patched its copy
PastNameCheck(c) ==
  call[c].pc \in {"named", "validated", "numeric_hidden", "dimensions_hidden",
                  "hierarchies_hidden", "categorical_hidden", "error"}

\* the _update_project calls the current call of a caller has made
UpdatesBy(c) == {i \in (call[c].seen + 1)..Len(log) : log[i].caller = c}

\* C6: with update=True and no perspective of the given name, and with
\* update=False and a perspective of that name, the call ends in an error:
\* it makes no _update_project call, returns no id, and the perspectives of
\* the project stay as the call found them unless another call writes.
C6_NameCheckRaises ==
  \A c \in Callers :
    (PastNameCheck(c) /\ NameCheckFails(c)) =>
      /\ call[c].pc = "error"
      /\ UpdatesBy(c) = {}
      /\ call[c].ret = 0
      /\ Len(log) = call[c].seen => persisted = call[c].project_dict

\* an update of a missing name and a create of a present name have both
\* ended in an error
C6_Witness ==
  \E c, d \in Callers :
    /\ call[c].pc = "error" /\ call[c].req.update /\ NameCheckFails(c)
    /\ call[d].pc = "error" /\ ~call[d].req.update /\ NameCheckFails(d)

\* C7: with serialized calls no step removes a perspective; the update call
\* of a create appends exactly one perspective with a fresh id and the given
\* name and leaves the others as they were; the update call of an update
\* keeps number and order, replaces only the perspective with the id found
\* under the given name, and that id is the one returned.
C7_Step ==
  /\ IdsOf(persisted) \subseteq IdsOf(persisted')
  /\ \A c \in Callers :
       /\ (call[c].pc = "patched" /\ call'[c].pc = "updated") =>
            IF call[c].req.update
            THEN /\ Len(persisted') = Len(persisted)
                 /\ \A i \in 1..Len(persisted) :
                      /\ persisted'[i].id = persisted[i].id
                      /\ persisted[i].id # call[c].perspective_id =>
                           persisted'[i] = persisted[i]
                      /\ persisted[i].id = call[c].perspective_id =>
                           persisted'[i] = PerspectiveDict(call[c])
                 /\ \E i \in 1..Len(persisted) :
                      /\ persisted[i].name = call[c].req.name
                      /\ persisted[i].id = call[c].perspective_id
            ELSE /\ Len(persisted') = Len(persisted) + 1
                 /\ SubSeq(persisted', 1, Len(persisted)) = persisted
                 /\ persisted'[Len(persisted')] = PerspectiveDict(call[c])
                 /\ call[c].perspective_id \notin IdsOf(persisted)
       /\ (call[c].pc = "updated" /\ call'[c].pc = "done") =>
            /\ call'[c].ret = call[c].perspective_id
            /\ call'[c].ret \in IdsOf(persisted)

C7_PerspectivesKept == [][C7_Step]_vars

\* a create and an update have both returned, one after the other
C7_Witness ==
  /\ Len(log) = 2
  /\ \E c, d \in Callers :
       /\ call[c].pc = "done" /\ call[c].req.update
       /\ call[d].pc = "done" /\ ~call[d].req.update
       /\ {call[c].ret, call[d].ret} \subseteq IdsOf(persisted)

\* two creates for different names have returned; d fetched the descriptor
\* before c handed its copy to _update_project and handed its own after
Raced(c, d) ==
  /\ c # d
  /\ call[c].pc = "done" /\ call[d].pc = "done"
  /\ ~call[c].req.update /\ ~call[d].req.update
  /\ call[c].req.name # call[d].req.name
  /\ \E i \in UpdatesBy(c) : \E j \in UpdatesBy(d) : call[d].seen < i /\ i < j

\* C8: the write is a read-modify-write of the whole descriptor without a
\* guard: when two creates for different names race, both return an id and
\* the persisted descriptor holds the perspective of the later writer only.
C8_LaterWriterOnly ==
  \A c, d \in Callers :
    Raced(c, d) =>
      /\ call[c].ret # 0 /\ call[d].ret # 0
      /\ call[d].ret \in IdsOf(persisted)
      /\ call[c].ret \notin IdsOf(persisted)

\* both calls have returned an id and one of the two perspectives is lost
C8_LostUpdate ==
  \E c, d \in Callers :
    /\ c # d
    /\ call[c].pc = "done" /\ call[d].pc = "done"
    /\ call[c].req.name # call[d].req.name
    /\ call[c].ret # call[d].ret
    /\ call[d].ret \in IdsOf(persisted)
    /\ call[c].ret \notin IdsOf(persisted)

(* --------------------------- more catalog properties -------------------- *)
\* C11: a hierarchy level whose properties.visible is False has no entry in
\* the catalog of _parse_categorical_features, under any roleplay, and
\* neither have the secondary attributes attached to it.
C11_InvisibleLevelNotEmitted ==
  parser.pc = "returned" =>
    \A k \in 1..Len(HierarchiesOf(Desc.dims)) :
      LET h == HierarchiesOf(Desc.dims)[k].hierarchy
      IN  \A i \in 1..Len(h.level) :
            ~h.level[i].visible =>
              \A j \in 1..Len(parser.return_dict) :
                LET e == parser.return_dict[j]
                IN  /\ ~(/\ e.base_name = RefIds(Desc)[h.level[i].primary].name
                         /\ h.name \in Range(e.base_hierarchy))
                    /\ \A a \in 1..Len(h.level[i].kar) :
                         e.base_name # RefIds(Desc)[h.level[i].kar[a].attr].name

\* the unfiltered catalog of a descriptor
AllCatalog(desc) == _get_draft_features(desc, NoneList, NoneList, "All")

JoinCatalog == joins.feature_dict

\* the join columns as the caller passed them (join_features when None)
Supplied ==
  IF joins.input.hasColumns THEN joins.input.join_columns
  ELSE [i \in 1..Len(joins.input.join_features) |-> Str(joins.input.join_features[i])]

\* the feature check has been made
PastFeatureCheck ==
  \/ joins.pc \in {"columns", "keys", "prompt", "fetch", "returned"}
  \/ joins.pc = "error" /\ joins.error.rule >= 2

Rejected(f) ==
  f \in Range(joins.error.features_not_in_model) \cup Range(joins.error.non_level_features)

\* C13 as claimed: a join feature is accepted exactly when its name is a key
\* of the catalog whose entry is a categorical level that is not a secondary
\* attribute, the roleplayed display name of a level included.
C13_AcceptedIffCatalogLevel ==
  PastFeatureCheck =>
    \A f \in Range(joins.join_features) :
      ~Rejected(f) <=>
        \E i \in 1..Len(JoinCatalog) :
          /\ JoinCatalog[i].name = f
          /\ JoinCatalog[i].feature_type = "Categorical"
          /\ ~SecondaryOf(JoinCatalog[i])

\* C13, amended: a join feature is accepted exactly when its name is the
\* base name of a categorical catalog entry that is not a secondary
\* attribute; a name that is neither a key nor a base name of the catalog is
\* reported as not in the model, every other rejected name as not a level.
C13_AcceptedIffBaseLevel ==
  PastFeatureCheck =>
    \A f \in Range(joins.join_features) :
      /\ ~Rejected(f) <=>
           \E i \in 1..Len(JoinCatalog) :
             /\ BaseNameOf(JoinCatalog[i]) = f
             /\ JoinCatalog[i].feature_type = "Categorical"
             /\ ~SecondaryOf(JoinCatalog[i])
      /\ f \in Range(joins.error.features_not_in_model) <=>
           /\ joins.error.rule = 2
           /\ \A i \in 1..Len(JoinCatalog) :
                f # JoinCatalog[i].name /\ f # BaseNameOf(JoinCatalog[i])

\* the display name Order Day of the level Day is rejected as not a level
C13_Witness ==
  /\ joins.pc = "error"
  /\ joins.error.rule = 2
  /\ <<"Order", "Day">> \in NamesOf(JoinCatalog)
  /\ <<"Order", "Day">> \in Range(joins.error.non_level_features)

\* the rules an input violates
LengthsDiffer ==
  \/ joins.input.hasColumns
       /\ Len(joins.input.join_columns) # Len(joins.input.join_features)
  \/ joins.input.hasRoleplay
       /\ Len(joins.input.roleplay_features) # Len(joins.input.join_features)

InvalidFeatures ==
  {f \in Range(joins.input.join_features) : f \notin Levels(JoinCatalog)}

MissingColumns ==
  {c \in UNION {Range(Supplied[i].cols) : i \in 1..Len(Supplied)} :
     c \notin joins.input.column_set}

\* the join features whose number of columns is not that of their key
KeyCountOff ==
  {i \in 1..Len(joins.input.join_features) :
     i <= Len(Supplied) /\
     Len(Supplied[i].cols) # Len(KeyCols(joins.input.join_features[i]))}

Asked == {i \in 1..Len(joins.events) : joins.events[i].kind \in {"prompt", "fetch"}}

\* C14: the error raised is that of the lowest-numbered rule the input
\* violates, and the operator is not prompted and no keys are fetched from
\* the warehouse unless every join feature has passed the key-count rule.
C14_RulesInOrder ==
  /\ joins.pc = "error" =>
       /\ joins.error.rule > 1 => ~LengthsDiffer
       /\ joins.error.rule > 2 => InvalidFeatures = {}
       /\ joins.error.rule > 3 => MissingColumns = {}
  /\ Asked # {} => KeyCountOff = {}

\* C15: the UserError names every offending item of the rule it reports:
\* every unknown or non-level feature, every missing column, and every
\* feature whose number of columns is not that of its key.
C15_AllOffendersNamed ==
  joins.pc = "error" =>
    /\ joins.error.rule = 2 =>
         InvalidFeatures \subseteq
           Range(joins.error.features_not_in_model)
             \cup Range(joins.error.non_level_features)
    /\ joins.error.rule = 3 =>
         MissingColumns \subseteq Range(joins.error.missing_join_columns)
    /\ joins.error.rule = 4 =>
         \A i \in KeyCountOff : joins.input.join_features[i] = joins.error.join_feature

\* C16: a call with a join feature whose number of columns m is not the
\* number k of its key columns does not return; the key-count error carries
\* the k key columns and the m columns received of such a feature; on return
\* every join column is a list as long as the key of its feature.
C16_KeyCount ==
  /\ joins.pc = "returned" =>
       /\ KeyCountOff = {}
       /\ Len(joins.join_columns) = Len(joins.join_features)
       /\ \A i \in 1..Len(joins.join_columns) :
            /\ joins.join_columns[i].list
            /\ Len(joins.join_columns[i].cols) = Len(KeyCols(joins.join_features[i]))
  /\ (joins.pc = "error" /\ joins.error.rule = 4) =>
       \E i \in KeyCountOff :
         /\ joins.error.join_feature = joins.join_features[i]
         /\ joins.error.key_cols = KeyCols(joins.join_features[i])
         /\ joins.error.join_column = Supplied[i].cols
         /\ Len(joins.error.key_cols) # Len(joins.error.join_column)
  /\ ( /\ KeyCountOff # {} /\ ~LengthsDiffer
       /\ InvalidFeatures = {} /\ MissingColumns = {}
       /\ joins.pc \in {"returned", "error"} ) => joins.error.rule = 4

\* one column for the two-column key of Item
C16_Witness ==
  /\ joins.pc = "error"
  /\ joins.error.rule = 4
  /\ Len(joins.error.key_cols) = 2
  /\ Len(joins.error.join_column) = 1

\* the operator answered yes to the prompt for the i-th join feature
AnsweredYes(i) ==
  \E e \in Range(joins.events) : e.kind = "prompt" /\ e.feature = i /\ e.answer

\* C17: a join column is replaced, and df merged with fetched key values,
\* only with connection and dataframe, for a feature with one key column
\* that is not its value column, when the column is not the key column and
\* is the value column, the feature name or confirmed by the operator; it is
\* then the key column.  Every other join column is returned as supplied and
\* df is merged for no other feature; without connection or dataframe there
\* is no prompt and no key fetch, only the warning.
C17_RewriteOnlyWhenMapped ==
  /\ joins.pc = "returned" =>
       \A i \in 1..Len(joins.join_columns) :
         LET f == joins.join_features[i]
             changed == joins.join_columns[i].cols # Supplied[i].cols
             merges == {m \in 1..Len(joins.merged) : joins.merged[m].feature = i}
         IN  /\ changed <=> merges # {}
             /\ Cardinality(merges) <= 1
             /\ changed =>
                  /\ joins.input.dbconn /\ joins.input.df
                  /\ Len(KeyCols(f)) = 1
                  /\ KeyCols(f)[1] # ValueCol(f)
                  /\ Supplied[i].cols[1] # KeyCols(f)[1]
                  /\ \/ Supplied[i].cols[1] = ValueCol(f)
                     \/ Supplied[i].cols[1] = f
                     \/ AnsweredYes(i)
                  /\ joins.join_columns[i].cols = <<KeyCols(f)[1]>>
                  /\ \A m \in merges : joins.merged[m].on = Supplied[i].cols[1]
  /\ ~(joins.input.dbconn /\ joins.input.df) =>
       /\ Asked = {}
       /\ joins.merged = <<>>
       /\ joins.pc = "returned" =>
            \A i \in 1..Len(joins.join_features) :
              (\E e \in Range(joins.events) : e.kind = "warning" /\ e.feature = i)
                <=> Warns(joins.join_features[i], Supplied[i])

\* a column the operator confirmed is replaced by the key column of Day
C17_Witness ==
  /\ joins.pc = "returned"
  /\ \E i \in 1..Len(joins.join_columns) :
       /\ AnsweredYes(i)
       /\ Supplied[i].cols = << <<"other">> >>
       /\ joins.join_columns[i].cols = << <<"day_id">> >>
       /\ joins.merged # <<>>

(* ------------------------------ query properties ----------------------- *)
\* the names of the published catalog
ListAll == NamesOf(query.all_features)

\* every name the request refers to: the feature list, the keys of the
\* filter parameters and the features of the order_by tuples
ReferencedNames ==
  Range(query.input.feature_list)
    \cup UNION {Range(KeysOf(query.input.filters[p])) : p \in Range(ListParams)}
    \cup {query.input.order_by[i].name : i \in 1..Len(query.input.order_by)}

QueryEnded == query.pc \in {"error", "returned"}

OrderByComplies ==
  \A i \in 1..Len(query.input.order_by) : OrderItemComplies(query.input.order_by[i])

\* C18: a request that refers to names the published catalog does not have,
\* in the feature list, in a filter parameter or in order_by, ends with one
\* error that reports all of them, and no query is returned.
C18_AllUnknownReported ==
  (QueryEnded /\ OrderByComplies /\ ReferencedNames \ ListAll # {}) =>
    /\ query.pc = "error"
    /\ query.query = <<>>
    /\ ReferencedNames \ ListAll \subseteq Range(query.error.items)

\* the positions of feature_list where a categorical feature occurs first
FirstCategorical ==
  {i \in 1..Len(query.input.feature_list) :
     /\ \E k \in 1..Len(query.all_features) :
          /\ query.all_features[k].name = query.input.feature_list[i]
          /\ query.all_features[k].feature_type = "Categorical"
     /\ \A j \in 1..(i - 1) : query.input.feature_list[j] # query.input.feature_list[i]}

\* C19: without order_by the ORDER BY clause of the returned query lists the
\* categorical features of feature_list, each once, in the order of their
\* first occurrence, and there is no ORDER BY clause when there is none.
C19_DefaultOrder ==
  (query.pc = "returned" /\ query.input.order_by = <<>>) =>
    LET at == SortedSeq(FirstCategorical)
        columns == [k \in 1..Len(at) |-> Backtick(query.input.feature_list[at[k]])]
    IN  /\ query.order_string =
             IF columns = <<>> THEN <<>>
             ELSE <<" ORDER BY ">> \o JoinWith(<<", ">>, columns)
        /\ " ORDER BY " \in Range(query.query) <=> FirstCategorical # {}
        /\ \E pre, post \in 0..Len(query.query) :
             /\ pre + Len(query.order_string) + post = Len(query.query)
             /\ SubSeq(query.query, pre + 1, pre + Len(query.order_string))
                  = query.order_string
             /\ post = (IF query.input.hasLimit THEN 2 ELSE 0)
                         + (IF query.input.hasComment THEN 3 ELSE 0)

\* a categorical feature listed twice is ordered by once
C19_Witness ==
  /\ query.pc = "returned"
  /\ query.input.order_by = <<>>
  /\ query.input.feature_list = << <<"Item">>, <<"Item">> >>
  /\ query.order_string = <<" ORDER BY ", BQ, "Item", BQ>>

\* a value on its own terms: a string that is a feature name between
\* backquotes, any other string between single quotes, a number or boolean bare
OwnTerms(value) ==
  IF value.type = "str"
  THEN IF value.text \in ListAll THEN <<BQ>> \o value.text \o <<BQ>>
       ELSE <<"'">> \o value.text \o <<"'">>
  ELSE value.text

\* the predicate of one key with every value on its own terms
OwnPredicate(op, entry) ==
  <<"(", BQ>> \o entry.key \o <<BQ, " ", op, " ">> \o OwnTerms(entry.value) \o <<")">>

OwnIn(entry) ==
  <<"(", BQ>> \o entry.key \o <<BQ, " IN (">>
    \o JoinWith(<<", ">>, [i \in 1..Len(entry.value) |-> OwnTerms(entry.value[i])])
    \o <<")", ")">>

OwnBetween(entry) ==
  <<"(", BQ>> \o entry.key \o <<BQ, " BETWEEN ">> \o OwnTerms(entry.value[1])
    \o <<" and ">> \o OwnTerms(entry.value[2]) \o <<")">>

\* the operator of a comparison parameter
OperatorOf(p) ==
  CASE p = "filter_equals" -> "=" [] p = "filter_greater" -> ">"
    [] p = "filter_less" -> "<" [] p = "filter_greater_or_equal" -> ">="
    [] p = "filter_less_or_equal" -> "<=" [] p = "filter_not_equal" -> "<>"
    [] p = "filter_like" -> "LIKE" [] p = "filter_rlike" -> "RLIKE"
    [] OTHER -> ""

\* C20: every predicate of the WHERE clause of the returned query renders
\* each of its values on its own terms, for the comparisons, LIKE, RLIKE, IN
\* and BETWEEN.
C20_ValuesOnOwnTerms ==
  query.pc = "returned" =>
    \A p \in Range(ListParams) \ {"filter_null", "filter_not_null"} :
      \A i \in 1..Len(query.input.filters[p]) :
        LET entry == query.input.filters[p][i]
        IN  (CASE p = "filter_in" -> OwnIn(entry)
               [] p = "filter_between" -> OwnBetween(entry)
               [] OTHER -> OwnPredicate(OperatorOf(p), entry))
              \in Range(query.predicates)

\* t occurs in s as a run of consecutive tokens
Contains(s, t) ==
  \E i \in 0..(Len(s) - Len(t)) : SubSeq(s, i + 1, i + Len(t)) = t

\* s ends with t
EndsWith(s, t) ==
  Len(t) <= Len(s) /\ SubSeq(s, Len(s) - Len(t) + 1, Len(s)) = t

\* the request has one filter, an equals filter of one key whose value is a
\* string that is no feature name, a limit and no comment
OneEqualsFilter ==
  /\ \A p \in Range(ListParams) \ {"filter_equals"} : query.input.filters[p] = <<>>
  /\ Len(query.input.filters.filter_equals) = 1
  /\ query.input.filters.filter_equals[1].value.type = "str"
  /\ query.input.filters.filter_equals[1].value.text \notin ListAll
  /\ query.input.hasLimit
  /\ ~query.input.hasComment

\* the text `k` = 'v' of the one filter entry
EqualsText ==
  LET entry == query.input.filters.filter_equals[1]
  IN  Backtick(entry.key) \o <<" ", "=", " ">> \o Quoted(entry.value.text)

\* C21 as stated: with one equals filter {k: v}, v a string that is no
\* feature name, a limit n and no comment, the returned query contains
\* WHERE (`k` = 'v') with a single pair of parentheses and ends with LIMIT n.
C21_SingleParentheses ==
  (query.pc = "returned" /\ OneEqualsFilter) =>
    /\ Contains(query.query, <<" WHERE (">> \o EqualsText \o <<")">>)
    /\ EndsWith(query.query, <<" LIMIT ", query.input.limit>>)

\* C21 amended: with one equals filter {k: v}, v a string that is no feature
\* name, a limit n and no comment, the returned query contains
\* WHERE ((`k` = 'v')), the predicate in its own parentheses inside the
\* group of the clause, and ends with LIMIT n.
C21_GroupedPredicate ==
  (query.pc = "returned" /\ OneEqualsFilter) =>
    /\ Contains(query.query, <<" WHERE (", "(">> \o EqualsText \o <<")", ")">>)
    /\ ~Contains(query.query, <<" WHERE (">> \o EqualsText)
    /\ EndsWith(query.query, <<" LIMIT ", query.input.limit>>)

\* Year = '2020' with LIMIT 10 is compiled
C21_Witness ==
  /\ query.pc = "returned"
  /\ OneEqualsFilter
  /\ query.input.filters.filter_equals[1] = FilterEntry(<<"Year">>, StrVal(<<"2020">>))
  /\ query.input.limit = "10"
  /\ query.filter_string # <<>>

(* ----------------------------- explain properties ---------------------- *)
\* the log entries for the submitted query text that are marked not succeeded
FailedEntries ==
  {i \in 1..Len(explain.data) :
     /\ explain.data[i].query_text = explain.atscale_query.text
     /\ ~(explain.data[i].hasSucceeded /\ explain.data[i].succeeded)}

\* C22: when the query log holds an entry for the submitted query text that
\* is marked not succeeded, at whatever position among the entries with that
\* text, the call ends with an AtScaleServerError that carries a failure
\* message of the service and returns no warehouse query.
C22_AnyFailureRaises ==
  (explain.pc \in {"error", "returned"} /\ FailedEntries # {}) =>
    /\ explain.pc = "error"
    /\ explain.error \in {explain.data[i].failure_message : i \in FailedEntries}
    /\ explain.result = <<>>

(* ------------------------------- Iris properties ----------------------- *)
\* the texts of a statement list
TextsOfStatements(statement_list) ==
  [i \in 1..Len(statement_list) |-> statement_list[i].text]

\* C23: a statement list is executed as one transaction: once the call has
\* ended, with or without an error, either every statement of the list has
\* taken effect or none has; in particular nothing is committed of a list
\* one of whose statements fails.
C23_AllOrNothing ==
  (db.pc \in {"done", "error"} /\ db.statement_list # <<>>) =>
    \/ db.committed = <<>>
    \/ db.committed = TextsOfStatements(db.statement_list)

\* the INSERT statements the cursor executed, in execution order
Inserts ==
  LET at == SortedSeq({i \in 1..Len(db.executed) : Head(db.executed[i]) = "INSERT INTO "})
  IN  [k \in 1..Len(at) |-> db.executed[at[k]]]

\* the cells of the rows of a statement, read from its text: a SELECT opens
\* a row and the tokens between quotes are its cells
RECURSIVE RowsRead(_, _)
RowsRead(tokens, rows) ==
  IF tokens = <<>> THEN rows
  ELSE IF Head(tokens) = "SELECT " THEN RowsRead(Tail(tokens), Append(rows, <<>>))
  ELSE IF Head(tokens) \in {"'", ", ", " UNION ALL "} \/ rows = <<>>
  THEN RowsRead(Tail(tokens), rows)
  ELSE RowsRead(Tail(tokens),
                [rows EXCEPT ![Len(rows)] = Append(@, Head(tokens))])

\* the rows a statement carries
RowsOf(statement) == RowsRead(statement, <<>>)

\* the rows of the first k statements, in execution order
RECURSIVE RowsWritten(_)
RowsWritten(k) ==
  IF k = 0 THEN <<>> ELSE RowsWritten(k - 1) \o RowsOf(Inserts[k])

\* ceil(n / c)
Ceil(n, c) == MinOf({k \in 0..n : k * c >= n})

\* C24: a dataframe of n rows written with chunk size c is executed as
\* ceil(n/c) INSERT statements, one after another; every statement carries
\* at least one and at most c rows, and the rows of the statements in
\* execution order are the rows of the dataframe in order.
C24_ChunksCoverRows ==
  LET n == Len(db.input.dataframe)
      c == db.input.chunksize
  IN  /\ db.pc = "chunks" =>
           /\ Len(Inserts) = db.i - 1
           /\ RowsWritten(Len(Inserts)) = SubSeq(db.input.dataframe, 1, Min((db.i - 1) * c, n))
      /\ db.pc = "closed" =>
           /\ Len(Inserts) = Ceil(n, c)
           /\ \A k \in 1..Len(Inserts) :
                Len(RowsOf(Inserts[k])) >= 1 /\ Len(RowsOf(Inserts[k])) <= c
           /\ RowsWritten(Len(Inserts)) = db.input.dataframe

\* three rows, two of them equal, are written in chunks of two rows and one
C24_Witness ==
  /\ db.pc = "closed"
  /\ db.input.dataframe = << <<"x", "1">>, <<"y", "2">>, <<"x", "1">> >>
  /\ db.input.chunksize = 2
  /\ Len(Inserts) = 2
  /\ RowsOf(Inserts[2]) = << <<"x", "1">> >>

(* ------------------------------ stats properties ----------------------- *)
\* what stats.variance gives for the arguments of the call
VarianceOfCall ==
  WarehouseVar(stats.input.feature, stats.input.granularity_levels, stats.input.sample)

\* stats.variance completes for the arguments of the call
VarianceCompletes ==
  /\ stats.input.checks_pass
  /\ Binds(WarehouseVarianceParams, VarianceKeywords)
  /\ ~VarianceOfCall.failed

\* C25: a call of std with arguments for which variance completes ends
\* without an error and returns the square root of that variance.
C25_StdIsRootOfVariance ==
  (stats.pc \in {"error", "returned"} /\ stats.input.fn = "std" /\ VarianceCompletes) =>
    /\ stats.pc = "returned"
    /\ stats.result * stats.result = VarianceOfCall.var

(* ------------------------- perspective phase properties ----------------- *)
\* s is the beginning of t
IsPrefix(s, t) == Len(s) <= Len(t) /\ s = SubSeq(t, 1, Len(s))

\* the order of the hide phases as the state machine of the document has it
DocumentedPhases ==
  <<"dimensions_hidden", "hierarchies_hidden", "categorical_hidden", "numeric_hidden">>

\* the order of the hide phases with the numeric features first
NumericFirstPhases ==
  <<"numeric_hidden", "dimensions_hidden", "hierarchies_hidden", "categorical_hidden">>

\* the descriptor is handed to _update_project once, after four completed
\* phases, and not at all by a call that ends with an error
UpdatedOnceAfterPhases(c) ==
  /\ call[c].updates <= 1
  /\ call[c].updates = 1 <=> call[c].pc \in {"updated", "done"}
  /\ call[c].updates = 1 => Len(call[c].phases) = 4
  /\ call[c].pc = "error" => call[c].updates = 0

\* C26 as stated: the hide phases run in the order dimensions, hierarchies,
\* categorical features, numeric features, and the patched descriptor is
\* handed to the update call exactly once, after all four have completed
\* without error.
C26_NumericLast ==
  \A c \in Callers :
    IsPrefix(call[c].phases, DocumentedPhases) /\ UpdatedOnceAfterPhases(c)

\* C26 amended: the hide phases run in the order numeric features,
\* dimensions, hierarchies, categorical features, and the patched descriptor
\* is handed to the update call exactly once, after all four have completed
\* without error.
C26_NumericFirst ==
  \A c \in Callers :
    IsPrefix(call[c].phases, NumericFirstPhases) /\ UpdatedOnceAfterPhases(c)

\* a call that hides a numeric feature and a dimension has returned
C26_Witness ==
  \E c \in Callers :
    /\ call[c].pc = "done"
    /\ call[c].updates = 1
    /\ call[c].phases = NumericFirstPhases
    /\ call[c].req.numeric_features # <<>>
    /\ call[c].req.dimensions # <<>>
    /\ call[c].ov.flat_attributes # <<>>
    /\ call[c].ov.dims # <<>>

(* ------------------------ roleplay propagation properties --------------- *)
\* the while loop of _parse_categorical_features has left
LoopLeft == parser.pc = "loop" /\ parser.done

\* the levels of the project dimensions that are visible
VisibleLevels ==
  {LevelsOf(Desc.dims)[i] : i \in
     {j \in 1..Len(LevelsOf(Desc.dims)) :
        LevelsOf(Desc.dims)[j].hasProps /\ LevelsOf(Desc.dims)[j].visible}}

\* the attribute ids a level refers to by keyed-attribute-ref or attribute-ref
RefsOfLevel(level) ==
  {level.kar[i].attr : i \in 1..Len(level.kar)}
    \cup {level.ar[i].attr : i \in 1..Len(level.ar)}

\* C27: when the propagation loop has left, every attribute id a visible
\* level refers to is a key of roleplay_ids, and it holds the default no-op
\* roleplay ("{0}", "") when the primary attribute of its level never
\* received a roleplay.
C27_DefaultsAssigned ==
  LoopLeft =>
    \A level \in VisibleLevels : \A id \in RefsOfLevel(level) :
      /\ id \in DOMAIN parser.roleplay_ids
      /\ level.primary \notin DOMAIN parser.roleplay_ids =>
           parser.roleplay_ids[id] = <<DefaultRole>>

\* C28: a propagation pass over a roleplay table to which the previous pass
\* added no new attribute id leaves the table as it is, the list of
\* (naming template, ref id) pairs of every attribute id included.
C28_PassIdempotent ==
  LoopLeft => PropagatePass(Desc, parser.roleplay_ids, FALSE) = parser.roleplay_ids

\* the attribute ids of the project
AttributeIds ==
  {Desc.keyed[i].id : i \in 1..Len(Desc.keyed)}
    \cup {Desc.metrical[i].id : i \in 1..Len(Desc.metrical)}

\* the last pass of the loop added no attribute id to roleplay_ids
NoNewId ==
  /\ parser.passes > 0
  /\ parser.starting_roleplays = Cardinality(DOMAIN parser.roleplay_ids)


EmittersOf(desc, attr_id, template) ==
  LET Emits(dh) ==
        /\ \E i \in 1..Len(dh.hierarchy.level) : dh.hierarchy.level[i].primary = attr_id
        /\ template \in TemplatesIn(desc, dh.hierarchy, attr_id)
  IN  SelectSeq(HierarchiesOf(desc.dims), Emits)

\* the level entries of a dim_to_id_dict are as they were after one more
\* walk of a hierarchy
LevelEntriesKept(dict, again) ==
  /\ Len(again) = Len(dict)
  /\ \A i \in 1..Len(dict) : ~dict[i].secondary_attribute => again[i] = dict[i]

\* C30: a level emitted under one resolved name from two hierarchies has a
\* single entry under that name, whose hierarchy, folder and base_hierarchy
\* lists hold one value per emitting hierarchy in encounter order (so they
\* have equal length), in dim_to_id_dict and in the returned catalog; walking
\* any hierarchy again, all of them being recorded, leaves every level entry
\* unchanged.
C30_MergedByName ==
  parser.pc = "returned" =>
    /\ \A a \in LevelAttributes(Desc) : \A t \in TemplatesApplied(Desc, a) :
         LET n == Replace(t, RefIds(Desc)[a].name)
             em == EmittersOf(Desc, a, t)
             E == {i \in 1..Len(parser.dim_to_id_dict) : parser.dim_to_id_dict[i].name = n}
         IN  /\ Cardinality(E) = 1
             /\ \A i \in E :
                  LET e == parser.dim_to_id_dict[i]
                      r == parser.return_dict[i]
                  IN  /\ e.roleplayed_hierarchy =
                           [k \in 1..Len(em) |-> Replace(t, em[k].hierarchy.name)]
                      /\ e.folder = [k \in 1..Len(em) |-> em[k].hierarchy.folder]
                      /\ e.base_hierarchy = [k \in 1..Len(em) |-> em[k].hierarchy.name]
                      /\ r.name = n
                      /\ r.hierarchy = e.roleplayed_hierarchy
                      /\ r.folder = e.folder
                      /\ r.base_hierarchy = e.base_hierarchy
                      /\ Len(r.hierarchy) = Len(r.folder)
                      /\ Len(r.folder) = Len(r.base_hierarchy)
    /\ \A k \in 1..Len(HierarchiesOf(Desc.dims)) :
         LET dh == HierarchiesOf(Desc.dims)[k]
         IN  LevelEntriesKept(parser.dim_to_id_dict,
               EmitHierarchy(Desc, parser.roleplay_ids, parser.dim_to_id_dict,
                             dh.dimension, dh.hierarchy))

\* the keys of Day and of Month share the role Order, so that Year is emitted
\* as Order Year twice by Cal and once by Wk: the catalog is returned with
\* one entry Order Year of both hierarchies
C30_Witness ==
  /\ parser.pc = "returned"
  /\ 2 \in param.day \cap param.month
  /\ \E i \in 1..Len(parser.return_dict) :
       /\ parser.return_dict[i].name = <<"Order", "Year">>
       /\ parser.return_dict[i].hierarchy = << <<"Order", "Cal">>, <<"Order", "Wk">> >>
       /\ parser.return_dict[i].folder = <<"fCal", "fWk">>
       /\ parser.return_dict[i].base_hierarchy = << <<"Cal">>, <<"Wk">> >>

=============================================================================
